---- MODULE Spec2Model ----
(***************************************************************************)
(* Model of the HYPE whale monitor: the position-trigger engine            *)
(* (checkTriggers), the position store's route handlers (GET, POST,        *)
(* PATCH), the PnL-evaluation effect of the simulator page, and the        *)
(* liquidation-cascade simulator (simulateLongCascade).                    *)
(*                                                                         *)
(* Conventions.  Prices are integers in ticks, times are integers in       *)
(* milliseconds relative to an arbitrary origin.  A JavaScript value that  *)
(* is undefined / null / 0 where the code only tests its truthiness is     *)
(* NULL (for ids and strings) or 0 (for numbers).                          *)
(***************************************************************************)
EXTENDS Integers, Sequences, FiniteSets, TLC

VARIABLES
    \* ---- upstream TWAP feed (served by /api/twaps) ----
    feedSide,     \* side of the ordinary orders of the feed
    twaps,        \* data.twaps: the active orders, newest first
    \* ---- position store (table simulated_positions) ----
    store,        \* rows in insertion order
    \* ---- sequential evaluation of checkTriggers ----
    price,        \* currentPrice handed to checkTriggers
    cmds,         \* openPosition calls made by the last evaluation
    tpc,          \* "idle" | "emitted" | "materialized" | "reeval"
    rounds,       \* completed evaluate/materialize rounds
    \* ---- one call of simulateLongCascade ----
    sim,          \* the arguments of the call
    fp,           \* the rounding drift of the call's price arithmetic
    loop,         \* the locals of the scan loop
    steps,        \* the trace built so far
    obs,          \* observer: the first scanned bin at or below the target
                  \* with cumulative sell >= cumulative bid, NONE before it
    cpc,          \* "loop" | "done"
    result,       \* the returned CascadeResult, NONE before the return
    \* ---- two calls of simulateLongCascade side by side ----
    pair          \* their arguments and results, NONE when not in use

    \* ---- simulator page (client) ----
VARIABLES
    positions,    \* React state positions: the list last fetched
    hypePrice,    \* React state hypePrice
    now,          \* Date.now()
    closes,       \* closePosition calls made by the last run of the PnL effect
    evalTime      \* Date.now() at that run

    \* ---- requests of the client that have not completed ----
VARIABLES
    posts,        \* POST bodies sent by openPosition, not yet handled
    patches,      \* PATCH bodies sent by closePosition, not yet handled
    getResps,     \* GET responses not yet delivered to fetchPositions
    refresh,      \* the fetchData call of a manual refresh: the positions
                  \* its closure holds, NONE when none is pending
    postResp      \* what the last handled POST or PATCH answered, "none"
                  \* before the first one

    \* ---- the other components ----
VARIABLES
    calc,         \* ImpactCalculator: its props and React state, NONE when
                  \* not mounted
    alert         \* TWAP monitor page: its refs and the alerts it raised,
                  \* NONE when not mounted

    \* ---- one evaluation of checkTriggers, observed ----
VARIABLES
    scan          \* its local sortedTwaps and the loop indices at which the
                  \* dense rule's loop body ran, NONE when not observed

uiVars == <<calc, alert>>
feedVars == <<feedSide, twaps>>
seqVars == <<price, cmds, tpc, rounds>>
trigVars == <<feedVars, store, seqVars>>
simVars == <<sim, fp, loop, steps, obs, cpc, result, pair, uiVars, scan>>
pageVars == <<positions, hypePrice, now, closes, evalTime>>
netVars == <<posts, patches, getResps, refresh, postResp>>
vars == <<feedVars, store, seqVars, simVars, pageVars, netVars>>

----------------------------------------------------------------------------
(* Bounds of the model *)

MaxOrders == 11       \* orders in the feed
MaxSpecial == 1       \* orders of the feed that are not ordinary ones
MaxRounds == 2        \* evaluate/materialize rounds

(* Program constants *)

MINUTE_MS == 60 * 1000
LARGE_USD == 1000000
DENSE_MIN == 10
WINDOW_MS == 10 * 60 * 1000
DEFAULT_AMOUNT_USD == 1000
DEFAULT_LEVERAGE == 5

\* A missing string is NULL; a missing value of a nullable column or optional
\* argument is NONE, a present one is a non-empty tuple.
NULL == "null"
NONE == <<>>
Some(v) == <<v>>
Side == {"BUY", "SELL"}
OtherSide(s) == IF s = "BUY" THEN "SELL" ELSE "BUY"

----------------------------------------------------------------------------
(* Values of the input domain *)

GapShort == 1 * MINUTE_MS
GapLong == 3 * MINUTE_MS
PriceNow == 3000
PriceOrder == 2900
Prices == {0, PriceNow}

\* The kinds of order the feed can serve.  "plain" is the ordinary order:
\* sizeUsd exactly at the large-order threshold, no price field (EnrichedTwap
\* has none).  Every other kind deviates from it.
OrderKinds == {"plain", "other", "far", "big", "bigpx", "px"}

MkOrder(kind, id, lastTime, dom) ==
    [ id              |-> id,
      time            |-> lastTime + (IF kind = "far" THEN GapLong ELSE GapShort),
      side            |-> IF kind = "other" THEN OtherSide(dom) ELSE dom,
      sizeUsd         |-> IF kind \in {"big", "bigpx"} THEN LARGE_USD + 1 ELSE LARGE_USD,
      price           |-> IF kind \in {"bigpx", "px"} THEN PriceOrder ELSE 0,
      durationMinutes |-> IF kind \in {"big", "bigpx"} THEN 60 ELSE 30 ]

\* Number of orders of a feed (newest first, the oldest placed after time 0)
\* that are not ordinary ones.
RECURSIVE SpecialCount(_, _)
SpecialCount(feed, dom) ==
    IF feed = <<>> THEN 0
    ELSE LET t == Head(feed)
             prev == IF Len(feed) > 1 THEN feed[2].time ELSE 0
         IN  (IF t = MkOrder("plain", t.id, prev, dom) THEN 0 ELSE 1)
             + SpecialCount(Tail(feed), dom)

----------------------------------------------------------------------------
(* Sequence helpers *)

RECURSIVE Filter(_, _)
Filter(s, keep) ==
    IF s = <<>> THEN <<>>
    ELSE IF Head(s) \in keep THEN <<Head(s)>> \o Filter(Tail(s), keep)
         ELSE Filter(Tail(s), keep)

Range(s) == { s[k] : k \in DOMAIN s }

RECURSIVE Reverse(_)
Reverse(s) == IF s = <<>> THEN <<>> ELSE Append(Reverse(Tail(s)), Head(s))

\* Array.prototype.sort with comparator (a, b) => a.time - b.time: a stable
\* sort by time ascending.
RECURSIVE InsertByTime(_, _)
InsertByTime(sorted, t) ==
    IF sorted = <<>> THEN <<t>>
    ELSE IF Head(sorted).time <= t.time
         THEN <<Head(sorted)>> \o InsertByTime(Tail(sorted), t)
         ELSE <<t>> \o sorted

RECURSIVE SortByTime(_)
SortByTime(s) ==
    IF s = <<>> THEN <<>>
    ELSE InsertByTime(SortByTime(SubSeq(s, 1, Len(s) - 1)), s[Len(s)])

----------------------------------------------------------------------------
(* Trigger engine: checkTriggers *)

\* `large_${t.id}` and `dense_${inWindow[0].id}_BUY`: the template strings,
\* kept as tuples of their parts.
LargeTriggerId(t) == <<"large", t.id>>
DenseTriggerId(t, side) == <<"dense", t.id, side>>

\* new Date(ms).toISOString() and new Date(iso).getTime(): an ISO string
\* carries the instant with millisecond precision.
ToISOString(ms) == <<"iso", ms>>
GetTime(iso) == iso[2]

\* t.time + (t.durationMinutes * 60 * 1000)
OrderEndTime(t) == t.time + (t.durationMinutes * 60 * 1000)

\* t.price || currentPrice
EntryPriceOfOrder(t, currentPrice) == t.price
EntryPriceOf(t, currentPrice) == IF t.price # 0 THEN t.price ELSE currentPrice

\* One call openPosition(direction, price, triggerId, endTime).
OpenCall(direction, entryPrice, triggerId, endTime) ==
    [ direction |-> direction, price |-> entryPrice,
      triggerId |-> triggerId, endTime |-> endTime ]

\* new Set(existingPositions.map(p => p.trigger_id).filter(Boolean))
ExistingTriggerIdsNone(existingPositions) == {}
ExistingTriggerIds(existingPositions) ==
    { existingPositions[k].trigger_id : k \in DOMAIN existingPositions } \ {NONE}

\* t.sizeUsd > 1_000_000
IsLargeOrderGE(t) == t.sizeUsd >= LARGE_USD
IsLargeOrder(t) == t.sizeUsd > LARGE_USD

\* buys.length >= 10, sells.length >= 10
HasDenseCountGT(n) == n > DENSE_MIN
HasDenseCount(n) == n >= DENSE_MIN

\* existingTriggerIds.add(triggerId)
AddIdNot(ids, triggerId) == ids
AddId(ids, triggerId) == ids \cup {triggerId}

\* Rule 1: currentTwaps.forEach over the orders with sizeUsd > 1_000_000.
RECURSIVE LargeOrderRule(_, _, _, _, _)
LargeOrderRule(currentTwaps, k, currentPrice, ids, calls) ==
    IF k > Len(currentTwaps) THEN [ids |-> ids, calls |-> calls]
    ELSE LET t == currentTwaps[k]
             triggerId == LargeTriggerId(t)
         IN  IF IsLargeOrder(t) /\ triggerId \notin ids
             THEN LargeOrderRule(currentTwaps, k + 1, currentPrice,
                     AddId(ids, triggerId),
                     Append(calls, OpenCall(t.side, EntryPriceOf(t, currentPrice),
                                            triggerId, ToISOString(OrderEndTime(t)))))
             ELSE LargeOrderRule(currentTwaps, k + 1, currentPrice, ids, calls)

\* window.filter(t => t.time <= endTime)
RECURSIVE InWindow(_, _)
InWindow(window, endTime) ==
    IF window = <<>> THEN <<>>
    ELSE IF Head(window).time <= endTime
         THEN <<Head(window)>> \o InWindow(Tail(window), endTime)
         ELSE InWindow(Tail(window), endTime)

RECURSIVE CountSide(_, _)
CountSide(s, side) ==
    IF s = <<>> THEN 0
    ELSE (IF Head(s).side = side THEN 1 ELSE 0) + CountSide(Tail(s), side)

\* inWindow[inWindow.length - 1]
FirstTwap(inWindow) == inWindow[1]
LastTwap(inWindow) == inWindow[Len(inWindow)]

\* i += inWindow.length - 1
SkipAhead(i, inWindow) == i + (Len(inWindow) - 1)

\* Rule 2: the for loop over sortedTwaps; i is the 0-based loop index.  The
\* result holds the calls made and, as an observer, the values of i at which
\* the loop body ran.
RECURSIVE DenseOrdersScan(_, _, _, _, _, _)
DenseOrdersScan(sortedTwaps, i, currentPrice, ids, calls, anchors) ==
    IF ~(i <= Len(sortedTwaps) - DENSE_MIN) THEN [calls |-> calls, anchors |-> anchors]
    ELSE LET window == SubSeq(sortedTwaps, i + 1, Len(sortedTwaps))
             startTime == window[1].time
             endTime == startTime + WINDOW_MS
             inWindow == InWindow(window, endTime)
             lastTwap == LastTwap(inWindow)
             buyId == DenseTriggerId(inWindow[1], "BUY")
             fireBuy == HasDenseCount(CountSide(inWindow, "BUY")) /\ buyId \notin ids
             ids1 == IF fireBuy THEN AddId(ids, buyId) ELSE ids
             calls1 == IF fireBuy
                       THEN Append(calls, OpenCall("BUY", EntryPriceOf(lastTwap, currentPrice),
                                      buyId, ToISOString(OrderEndTime(lastTwap))))
                       ELSE calls
             i1 == IF fireBuy THEN SkipAhead(i, inWindow) ELSE i
             sellId == DenseTriggerId(inWindow[1], "SELL")
             fireSell == HasDenseCount(CountSide(inWindow, "SELL")) /\ sellId \notin ids1
             ids2 == IF fireSell THEN AddId(ids1, sellId) ELSE ids1
             calls2 == IF fireSell
                       THEN Append(calls1, OpenCall("SELL", EntryPriceOf(lastTwap, currentPrice),
                                      sellId, ToISOString(OrderEndTime(lastTwap))))
                       ELSE calls1
             i2 == IF fireSell THEN SkipAhead(i1, inWindow) ELSE i1
         IN  IF Len(inWindow) >= DENSE_MIN
             THEN DenseOrdersScan(sortedTwaps, i2 + 1, currentPrice, ids2, calls2,
                                  Append(anchors, i))
             ELSE DenseOrdersScan(sortedTwaps, i + 1, currentPrice, ids, calls,
                                  Append(anchors, i))

DenseOrdersRule(sortedTwaps, i, currentPrice, ids, calls) ==
    DenseOrdersScan(sortedTwaps, i, currentPrice, ids, calls, <<>>).calls

\* checkTriggers(currentTwaps, currentPrice, existingPositions): the sequence
\* of openPosition calls it makes, in call order, with the local sortedTwaps
\* and the loop indices of rule 2 (NONE and <<>> when it returns before).
CheckTriggersScan(currentTwaps, currentPrice, existingPositions) ==
    IF Len(currentTwaps) = 0 \/ currentPrice = 0
    THEN [calls |-> <<>>, sortedTwaps |-> NONE, anchors |-> <<>>]
    ELSE LET large == LargeOrderRule(currentTwaps, 1, currentPrice,
                                     ExistingTriggerIds(existingPositions), <<>>)
             sortedTwaps == SortByTime(currentTwaps)
         IN  IF Len(sortedTwaps) < DENSE_MIN
             THEN [calls |-> large.calls, sortedTwaps |-> sortedTwaps, anchors |-> <<>>]
             ELSE LET dense == DenseOrdersScan(sortedTwaps, 0, currentPrice,
                                               large.ids, large.calls, <<>>)
                  IN  [calls |-> dense.calls, sortedTwaps |-> sortedTwaps,
                       anchors |-> dense.anchors]

CheckTriggers(currentTwaps, currentPrice, existingPositions) ==
    CheckTriggersScan(currentTwaps, currentPrice, existingPositions).calls

----------------------------------------------------------------------------
(* Position store: table simulated_positions and its route handlers *)

OpenStatus == "OPEN"
ClosedStatuses == {"CLOSED_TP", "CLOSED_SL", "CLOSED_TIME"}

\* The row an insert creates: id and the column defaults of schema.sql; the
\* uuid is modelled by the row's ordinal (rows are never deleted).
NewRow(st, body) ==
    [ id          |-> Len(st) + 1,
      entry_price |-> body.entry_price,
      direction   |-> body.direction,
      status      |-> OpenStatus,
      amount_usd  |-> IF body.amount_usd # 0 THEN body.amount_usd ELSE DEFAULT_AMOUNT_USD,
      leverage    |-> IF body.leverage # 0 THEN body.leverage ELSE DEFAULT_LEVERAGE,
      close_price |-> NONE,
      pnl_percent |-> NONE,
      trigger_id  |-> body.trigger_id,
      end_time    |-> body.end_time ]

\* trigger_id text unique: a non-null trigger_id already held by a row.
NoTriggerConflict(st, trigger_id) == FALSE
TriggerConflict(st, trigger_id) ==
    trigger_id # NONE /\ \E k \in DOMAIN st : st[k].trigger_id = trigger_id

\* HTTP status of POST and the table after it.
PostStatus(st, body) ==
    IF body.entry_price = 0 \/ body.direction = NULL THEN 400 ELSE 200

\* What POST answers: the 400 error, the inserted row, or the message
\* "Conflict or duplicate trigger_id ignored".
PostResponse(st, body) ==
    IF PostStatus(st, body) # 200 THEN "error"
    ELSE IF TriggerConflict(st, body.trigger_id) THEN "ignored"
    ELSE "row"

\* upsert(..., { onConflict: "trigger_id", ignoreDuplicates: true })
StorePostMerge(st, body) ==
    IF PostStatus(st, body) # 200 THEN st
    ELSE IF TriggerConflict(st, body.trigger_id)
         THEN [ k \in DOMAIN st |->
                  IF st[k].trigger_id = body.trigger_id
                  THEN [ NewRow(st, body) EXCEPT !.id = st[k].id ]
                  ELSE st[k] ]
    ELSE Append(st, NewRow(st, body))
StorePost(st, body) ==
    IF PostStatus(st, body) # 200 THEN st
    ELSE IF TriggerConflict(st, body.trigger_id) THEN st
    ELSE Append(st, NewRow(st, body))

\* HTTP status of PATCH: 400 on missing fields, 500 when .single() finds no row.
PatchStatus(st, body) ==
    IF body.id = 0 \/ body.status = NULL THEN 400
    ELSE IF \E k \in DOMAIN st : st[k].id = body.id THEN 200 ELSE 500

\* What PATCH answers: an error (400, 500) or the updated row.
PatchResponse(st, body) ==
    IF PatchStatus(st, body) # 200 THEN "error" ELSE "updated"

\* update({ status, close_price, pnl_percent }).eq("id", id)
StorePatch(st, body) ==
    IF body.id = 0 \/ body.status = NULL THEN st
    ELSE [ k \in DOMAIN st |->
             IF st[k].id = body.id
             THEN [ st[k] EXCEPT !.status = body.status,
                                 !.close_price = body.close_price,
                                 !.pnl_percent = body.pnl_percent ]
             ELSE st[k] ]

\* GET: select("*").order("created_at", { ascending: false })
StoreGet(st) == Reverse(st)

\* The POST body openPosition sends.
OpenBody(call) ==
    [ entry_price |-> call.price, direction |-> call.direction,
      amount_usd |-> 1000, leverage |-> 5,
      trigger_id |-> call.triggerId, end_time |-> call.endTime ]

\* openPosition awaited to completion against the store: the guard
\* price <= 0, then the POST.
OpenPositionDone(st, call) ==
    IF call.price <= 0 THEN st ELSE StorePost(st, OpenBody(call))

RECURSIVE OpenAll(_, _)
OpenAll(st, calls) ==
    IF calls = <<>> THEN st
    ELSE OpenAll(OpenPositionDone(st, Head(calls)), Tail(calls))

----------------------------------------------------------------------------
(* Sequential evaluation: one client, every request completed before the   *)
(* next step.  The feed grows, checkTriggers is evaluated against the      *)
(* stored positions, its calls are materialized, and it is evaluated again.*)

LastTime(feed) == IF feed = <<>> THEN 0 ELSE Head(feed).time

FeedAdd(kind) ==
    /\ Len(twaps) < MaxOrders
    /\ LET t == MkOrder(kind, Len(twaps) + 1, LastTime(twaps), feedSide)
       IN  /\ twaps' = <<t>> \o twaps
           /\ SpecialCount(twaps', feedSide) <= MaxSpecial

TrigFeedAdd ==
    /\ tpc \in {"idle", "reeval"}
    /\ \E kind \in OrderKinds : FeedAdd(kind)
    /\ tpc' = "idle"
    /\ cmds' = <<>>
    /\ UNCHANGED <<feedSide, store, price, rounds, simVars, pageVars, netVars>>

TrigEvaluate ==
    /\ tpc = "idle"
    /\ rounds < MaxRounds
    /\ \E p \in Prices :
          /\ price' = p
          /\ cmds' = CheckTriggers(twaps, p, StoreGet(store))
    /\ tpc' = "emitted"
    /\ UNCHANGED <<feedSide, twaps, store, rounds, simVars, pageVars, netVars>>

TrigMaterialize ==
    /\ tpc = "emitted"
    /\ store' = OpenAll(store, cmds)
    /\ tpc' = "materialized"
    /\ rounds' = rounds + 1
    /\ UNCHANGED <<feedSide, twaps, price, cmds, simVars, pageVars, netVars>>

TrigReevaluate ==
    /\ tpc = "materialized"
    /\ cmds' = CheckTriggers(twaps, price, StoreGet(store))
    /\ tpc' = "reeval"
    /\ UNCHANGED <<feedSide, twaps, store, price, rounds, simVars, pageVars, netVars>>

SeqIdle ==
    /\ price = 0
    /\ cmds = <<>>
    /\ tpc = "idle"
    /\ rounds = 0

TrigIdle ==
    /\ twaps = <<>>
    /\ store = <<>>
    /\ SeqIdle

\* The page as mounted: useState([]), useState(0).
PageIdle ==
    /\ positions = <<>>
    /\ hypePrice = 0
    /\ now = 0
    /\ closes = <<>>
    /\ evalTime = 0

NetIdle ==
    /\ posts = <<>>
    /\ patches = <<>>
    /\ getResps = <<>>
    /\ refresh = NONE
    /\ postResp = "none"

UiIdle ==
    /\ calc = NONE
    /\ alert = NONE

ScanIdle == scan = NONE

SimIdle ==
    /\ sim = NONE
    /\ fp = NONE
    /\ loop = NONE
    /\ steps = <<>>
    /\ obs = NONE
    /\ cpc = "done"
    /\ result = NONE
    /\ pair = NONE
    /\ UiIdle
    /\ ScanIdle

TrigInit ==
    /\ feedSide \in Side
    /\ TrigIdle
    /\ SimIdle
    /\ PageIdle
    /\ NetIdle

TrigNext == TrigFeedAdd \/ TrigEvaluate \/ TrigMaterialize \/ TrigReevaluate

SpecTrig == TrigInit /\ [][TrigNext]_vars

----------------------------------------------------------------------------
(* Claims about checkTriggers, under SpecTrig *)

\* In these states cmds holds the calls of checkTriggers(twaps, price,
\* positions) for the positions now in the store.
Evaluated == tpc \in {"emitted", "reeval"}

CallsWith(calls, triggerId) == { k \in DOMAIN calls : calls[k].triggerId = triggerId }
DenseCalls(calls) == { k \in DOMAIN calls : calls[k].triggerId[1] = "dense" }
StoredTriggerIds == { store[k].trigger_id : k \in DOMAIN store } \ {NONE}

\* C3 (as claimed): once every open command of an evaluation has been
\* materialized as a position, evaluating again with the same orders, the
\* same price and the updated positions emits no open command.
C3_ReevaluationEmitsNothing == tpc = "reeval" => cmds = <<>>

\* Every order with sizeUsd > 1,000,000 has its trigger id large_<id> on a
\* stored position.
AllLargeStored ==
    \A j \in DOMAIN twaps :
        twaps[j].sizeUsd > 1000000 => <<"large", twaps[j].id>> \in StoredTriggerIds

LargeCalls(calls) == { k \in DOMAIN calls : calls[k].triggerId[1] = "large" }

\* C12 (as claimed): when the existing positions carry large_<id> for every
\* order with sizeUsd > 1,000,000, an evaluation of the same order list
\* yields zero open commands.
C12_NoCommandsWhenLargeStored ==
    (Evaluated /\ AllLargeStored /\ \E j \in DOMAIN twaps : twaps[j].sizeUsd > 1000000)
        => cmds = <<>>

\* C12 (amended): under the same premise the evaluation yields no
\* large-order command; more generally no order whose large_<id> is stored
\* gets a large-order command, whatever the price.
C12_LargeTriggerIdempotent ==
    Evaluated =>
        /\ \A j \in DOMAIN twaps :
              <<"large", twaps[j].id>> \in StoredTriggerIds
                  => CallsWith(cmds, <<"large", twaps[j].id>>) = {}
        /\ AllLargeStored => LargeCalls(cmds) = {}

\* C12 witness: the second evaluation, at a non-zero price, of a list that
\* holds an order above the threshold whose position the first evaluation
\* created.
C12_Witness ==
    /\ tpc = "reeval" /\ price # 0
    /\ AllLargeStored
    /\ \E j \in DOMAIN twaps : twaps[j].sizeUsd > 1000000
    /\ LargeCalls(cmds) = {}

\* The same with dense commands still emitted by that second evaluation.
C12_WitnessDense ==
    /\ C12_Witness
    /\ DenseCalls(cmds) # {}

\* C7: with a non-zero price, every order with sizeUsd > 1,000,000 whose
\* trigger id large_<id> no stored position carries gets exactly one open
\* command, with the order's side, the order's price (the current price when
\* it has none), trigger id large_<id> and end time = time + durationMinutes
\* * 60,000 ms; an order with sizeUsd <= 1,000,000 gets no large command.
C7_LargeOrderRule ==
    (Evaluated /\ price # 0) =>
        \A j \in DOMAIN twaps :
            LET t == twaps[j]
                hits == CallsWith(cmds, <<"large", t.id>>)
            IN  /\ (t.sizeUsd > 1000000 /\ <<"large", t.id>> \notin StoredTriggerIds) =>
                      /\ Cardinality(hits) = 1
                      /\ \A k \in hits :
                            /\ cmds[k].direction = t.side
                            /\ cmds[k].price = (IF t.price # 0 THEN t.price ELSE price)
                            /\ GetTime(cmds[k].endTime) = t.time + t.durationMinutes * 60000
                /\ t.sizeUsd <= 1000000 => hits = {}

\* C7 witness: an evaluation, with positions already stored, that emitted a
\* large-order command for an order without a price while an order exactly
\* at the threshold was present.
C7_Witness ==
    /\ Evaluated /\ price # 0
    /\ \E j \in DOMAIN twaps :
          /\ twaps[j].sizeUsd > 1000000
          /\ <<"large", twaps[j].id>> \notin StoredTriggerIds
          /\ twaps[j].price = 0
          /\ CallsWith(cmds, <<"large", twaps[j].id>>) # {}
    /\ store # <<>>
    /\ \E j \in DOMAIN twaps : twaps[j].sizeUsd = 1000000

OneSided(feed) == \E s \in Side : \A j \in DOMAIN feed : feed[j].side = s
Span(feed) ==
    LET ts == { feed[j].time : j \in DOMAIN feed }
    IN  (CHOOSE x \in ts : \A y \in ts : y <= x) - (CHOOSE x \in ts : \A y \in ts : x <= y)
NoStoredDense == \A id \in StoredTriggerIds : id[1] # "dense"

\* C8: for exactly 10 orders of one side, a non-zero price and no stored
\* dense trigger id, checkTriggers emits exactly one dense command, of that
\* side, when the timestamps span less than 10 minutes, and no dense command
\* when they span more than 10 minutes.
C8_DenseThreshold ==
    (Evaluated /\ price # 0 /\ Len(twaps) = 10 /\ OneSided(twaps) /\ NoStoredDense) =>
        /\ Span(twaps) < 600000 =>
              /\ Cardinality(DenseCalls(cmds)) = 1
              /\ \A k \in DenseCalls(cmds) : cmds[k].direction = twaps[1].side
        /\ Span(twaps) > 600000 => DenseCalls(cmds) = {}

\* C8 witness: ten SELL orders spanning 9 minutes, evaluated, one dense call.
C8_Witness ==
    /\ Evaluated /\ price # 0 /\ Len(twaps) = 10 /\ OneSided(twaps) /\ NoStoredDense
    /\ twaps[1].side = "SELL"
    /\ Span(twaps) = 540000
    /\ Cardinality(DenseCalls(cmds)) = 1

\* The other case of C8: ten one-sided orders spanning 11 minutes evaluated.
C8_WitnessWide ==
    /\ Evaluated /\ price # 0 /\ Len(twaps) = 10 /\ OneSided(twaps) /\ NoStoredDense
    /\ Span(twaps) = 660000
    /\ DenseCalls(cmds) = {}

\* The orders of the feed in the 10-minute window that starts at order a:
\* those placed at a.time or later and at most 10 minutes after it.
WindowAt(a) ==
    { t \in Range(twaps) : t.time >= a.time /\ t.time <= a.time + 600000 }

\* C23: a dense-cluster open command dense_<id>_<side> has the id of the
\* earliest order of its window and the triggering side as direction, and
\* takes entry price and end time from the latest order of that window
\* (that order's price, or the current price when it has none; that
\* order's time + durationMinutes * 60,000 ms), whatever side that latest
\* order has.
C23_DenseCommandFields ==
    Evaluated =>
        \A k \in DenseCalls(cmds) :
            \E a \in Range(twaps) :
                \E last \in WindowAt(a) :
                    /\ \A t \in WindowAt(a) : a.time <= t.time /\ t.time <= last.time
                    /\ cmds[k].triggerId = <<"dense", a.id, cmds[k].direction>>
                    /\ Cardinality({ t \in WindowAt(a) : t.side = cmds[k].direction }) >= 10
                    /\ cmds[k].price = IF last.price # 0 THEN last.price ELSE price
                    /\ cmds[k].endTime = <<"iso", last.time + last.durationMinutes * 60000>>

\* C23 witness: a dense command of one side whose entry reference, the
\* latest order of the feed, has the other side.
C23_Witness ==
    /\ Evaluated /\ price # 0
    /\ \E k \in DenseCalls(cmds) :
          \E t \in Range(twaps) :
             /\ t.side # cmds[k].direction
             /\ \A u \in Range(twaps) : u.time <= t.time
             /\ cmds[k].endTime = <<"iso", t.time + t.durationMinutes * 60000>>
             /\ cmds[k].triggerId[2] # t.id

\* A dense command that takes the price of the latest order of its window.
C23_WitnessOwnPrice ==
    /\ Evaluated
    /\ \E k \in DenseCalls(cmds) : cmds[k].price = PriceOrder /\ price # PriceOrder

\* A dense command that falls back to the current price.
C23_WitnessFallback ==
    /\ Evaluated
    /\ \E k \in DenseCalls(cmds) : cmds[k].price = price /\ price # 0

----------------------------------------------------------------------------
(* One evaluation of checkTriggers on a long feed: a burst of orders 30    *)
(* seconds apart, optionally followed an hour later by a second burst, with *)
(* no stored positions.  The feed may hold one order above the large-order  *)
(* threshold and may repeat an order id.                                    *)

MaxBurst == 20        \* orders of the first burst
MaxSecond == 11       \* orders of the second burst

SCAN_GAP == 30 * 1000
SCAN_PAUSE == 60 * MINUTE_MS

\* The side of the k-th order of a burst of n orders.
BurstSide(pattern, k, n) ==
    CASE pattern = "buy"  -> "BUY"
      [] pattern = "alt"  -> IF k % 2 = 1 THEN "BUY" ELSE "SELL"
      [] pattern = "half" -> IF 2 * k <= n THEN "BUY" ELSE "SELL"
      [] pattern = "tail" -> IF k < n THEN "SELL" ELSE "BUY"

ScanOrder(id, time, side, big) ==
    [ id |-> id, time |-> time, side |-> side,
      sizeUsd |-> IF big THEN LARGE_USD + 1 ELSE LARGE_USD,
      price |-> 0, durationMinutes |-> 30 ]

\* The feed oldest first.  f.nA and f.nB are the sizes of the bursts,
\* f.pattern the sides of the first one (the second is all BUY), f.big the
\* ordinal of the order above the threshold (0: none), f.dup what is
\* repeated: nothing, the large order (listed twice), or the id of the
\* first order (carried by the first order of the second burst as well).
ScanFeed(f) ==
    LET first == [ k \in 1..f.nA |->
                     ScanOrder(k, k * SCAN_GAP, BurstSide(f.pattern, k, f.nA), k = f.big) ]
        second == [ k \in 1..f.nB |->
                     ScanOrder(IF k = 1 /\ f.dup = "anchor" THEN 1 ELSE f.nA + k,
                               SCAN_PAUSE + k * SCAN_GAP, "BUY", FALSE) ]
        again == IF f.dup = "big" /\ f.big # 0 THEN << first[f.big] >> ELSE <<>>
    IN  first \o second \o again

ScanFeeds ==
    { f \in [ nA : {9, 10, 11, 19, MaxBurst}, nB : {0, 10, MaxSecond},
              pattern : {"buy", "alt", "half", "tail"},
              big : {0, 1, 10}, dup : {"none", "big", "anchor"} ] :
        /\ f.big <= f.nA
        /\ f.dup = "big" => f.big # 0
        /\ f.dup = "anchor" => f.nB # 0 }

\* The feed is served newest first.
ScanInit ==
    /\ \E f \in ScanFeeds : twaps = Reverse(ScanFeed(f))
    /\ feedSide = "BUY"
    /\ store = <<>>
    /\ SeqIdle
    /\ SimIdle
    /\ PageIdle
    /\ NetIdle

\* checkTriggers(twaps, p, []).
ScanEvaluate ==
    /\ tpc = "idle"
    /\ \E p \in Prices :
          LET r == CheckTriggersScan(twaps, p, <<>>)
          IN  /\ price' = p
              /\ cmds' = r.calls
              /\ scan' = [sortedTwaps |-> r.sortedTwaps, anchors |-> r.anchors]
    /\ tpc' = "emitted"
    /\ UNCHANGED <<feedVars, store, rounds, sim, fp, loop, steps, obs, cpc, result,
                   pair, uiVars, pageVars, netVars>>

\* The positions its calls create are stored (openPosition completes).
ScanMaterialize ==
    /\ tpc = "emitted"
    /\ store' = OpenAll(store, cmds)
    /\ tpc' = "materialized"
    /\ UNCHANGED <<feedVars, price, cmds, rounds, simVars, pageVars, netVars>>

ScanNext == ScanEvaluate \/ ScanMaterialize

SpecScan == ScanInit /\ [][ScanNext]_vars

----------------------------------------------------------------------------
(* Claims about one evaluation, under SpecScan *)

Scanned == tpc \in {"emitted", "materialized"} /\ scan.sortedTwaps # <<>>

\* The window whose first order is sortedTwaps[i + 1] (i the 0-based loop
\* index): the orders from there on placed at most 10 minutes later.
ScanWindow(i) ==
    { k \in (i + 1)..Len(scan.sortedTwaps) :
        scan.sortedTwaps[k].time <= scan.sortedTwaps[i + 1].time + 600000 }

SideCount(i, side) == Cardinality({ k \in ScanWindow(i) : scan.sortedTwaps[k].side = side })

\* The window at loop index i emitted a command: it holds 10 or more orders
\* of a side and a call carries its trigger id for that side.
Emitted(i, side) ==
    /\ SideCount(i, side) >= 10
    /\ CallsWith(cmds, <<"dense", scan.sortedTwaps[i + 1].id, side>>) # {}

AnchorSet == { scan.anchors[k] : k \in DOMAIN scan.anchors }
UniqueIds == \A j, k \in DOMAIN twaps : j # k => twaps[j].id # twaps[k].id

\* C24 (as claimed): after a window emits a command the scan resumes at the
\* first order after the window's last order.  No order inside the consumed
\* window is the first order of another window, and the first order after
\* it is not skipped (if 10 or more orders remain from there), also when
\* the window emitted for both BUY and SELL.
C24_ScanResumesAfterWindow ==
    (Scanned /\ UniqueIds) =>
        \A i \in AnchorSet :
            (\E side \in Side : Emitted(i, side)) =>
                LET next == i + Cardinality(ScanWindow(i))
                IN  /\ \A j \in AnchorSet : j > i => j >= next
                    /\ next <= Len(scan.sortedTwaps) - 10 => next \in AnchorSet

\* What holds of the code: the statement for the windows that emitted for
\* one side only; a window that emitted for both sides skips twice as far.
C24_ScanResumesAfterOneSided ==
    (Scanned /\ UniqueIds) =>
        \A i \in AnchorSet :
            LET next == i + Cardinality(ScanWindow(i))
                both == Emitted(i, "BUY") /\ Emitted(i, "SELL")
                one == ~both /\ \E side \in Side : Emitted(i, side)
            IN  /\ one => /\ \A j \in AnchorSet : j > i => j >= next
                          /\ next <= Len(scan.sortedTwaps) - 10 => next \in AnchorSet
                /\ both => \A j \in AnchorSet : j > i => j >= 2 * next - i - 1

\* A window of 20 orders emitted for both sides, and the burst of 10 BUY
\* orders an hour later got no window of its own.
C24_WitnessBothSides ==
    /\ Scanned /\ UniqueIds
    /\ Emitted(0, "BUY") /\ Emitted(0, "SELL")
    /\ Cardinality(ScanWindow(0)) = 20
    /\ Len(scan.sortedTwaps) >= 30
    /\ 20 \notin AnchorSet
    /\ DenseCalls(cmds) = CallsWith(cmds, <<"dense", 1, "BUY">>)
                            \cup CallsWith(cmds, <<"dense", 1, "SELL">>)

\* A window that emitted for one side, followed by a second window that
\* starts right after it and emits too.
C24_WitnessOneSided ==
    /\ Scanned /\ UniqueIds
    /\ Emitted(0, "BUY") /\ ~Emitted(0, "SELL")
    /\ \E i \in AnchorSet : i = Cardinality(ScanWindow(0)) /\ Emitted(i, "BUY")

\* C28: within a single evaluation checkTriggers emits at most one open
\* command per trigger id, also when the order list holds the same order id
\* more than once or when several windows derive the same dense trigger id.
C28_OneCommandPerTriggerId ==
    tpc \in {"emitted", "materialized"} =>
        \A j, k \in DOMAIN cmds : j # k => cmds[j].triggerId # cmds[k].triggerId

\* C28 witness: the order above the threshold is listed twice and got one
\* command.
C28_Witness ==
    /\ tpc = "emitted" /\ price # 0
    /\ \E j, k \in DOMAIN twaps :
          /\ j # k /\ twaps[j].id = twaps[k].id /\ twaps[j].sizeUsd > 1000000
          /\ Cardinality(CallsWith(cmds, <<"large", twaps[j].id>>)) = 1

\* Two windows that start at orders with the same id both hold 10 BUY
\* orders, and one command dense_<id>_BUY was made.
C28_WitnessDense ==
    /\ Scanned /\ price # 0
    /\ \E i \in AnchorSet :
          /\ i > 0
          /\ scan.sortedTwaps[i + 1].id = scan.sortedTwaps[1].id
          /\ SideCount(i, "BUY") >= 10 /\ SideCount(0, "BUY") >= 10
          /\ Cardinality(CallsWith(cmds, <<"dense", scan.sortedTwaps[1].id, "BUY">>)) = 1

----------------------------------------------------------------------------
(* Cascade simulator: simulateLongCascade                                  *)
(*                                                                         *)
(* Arithmetic is on integers: prices in ticks (currentPrice a multiple of  *)
(* 500 ticks, so that binStep is a whole number of ticks), sizes in        *)
(* tokens, the coefficients k, x0, longRatio and the drawdown in           *)
(* thousandths.  Math.exp is a Taylor sum in thousandths.                  *)
(*                                                                         *)
(* Floating point: the bin price is produced by repeated subtraction       *)
(* (currentBinPrice -= binStep) and the upper edge of a bin by an addition *)
(* (currentBinPrice + binStep).  Both round, so a computed price can sit   *)
(* just above or just below the exact one (30 - 50 * 0.06 evaluates to     *)
(* 27.000000000000064).  The model lets the computed bin prices of a call  *)
(* be the exact ones plus a drift fp.bin, and the computed upper edges the *)
(* exact ones plus fp.edge, both drawn from Drifts for the call, one tick  *)
(* standing for the rounding error; the inputs keep every price either     *)
(* exactly on a bin edge or at least three ticks away from one.            *)

BINS_COUNT == 100
RANGE_PCT == 20          \* 0.20, in hundredths
SCAN_TRACE_EVERY == 25
Drifts == {-1, 0, 1}

\* params = { k: 0.18, a: 14, x0: 0.05, longRatio: 0.6 }
DefaultParams == [k |-> 180, a |-> 14, x0 |-> 50, longRatio |-> 600]

\* Math.exp(x), x >= 0 and the value in thousandths.
RECURSIVE ExpTerms(_, _, _, _)
ExpTerms(x, n, term, acc) ==
    LET next == (term * x) \div (n * 1000)
    IN  IF next = 0 THEN acc ELSE ExpTerms(x, n + 1, next, acc + next)

Exp(x) == ExpTerms(x, 1, 1000, 1000)

\* Number(b.px), Number(b.sz): a string that is no number gives NaN (NONE).
Number(str) == str
IsNaN(x) == x = NONE

\* bids.map(Number).filter(not NaN).sort((a, b) => b.px - a.px)
RECURSIVE InsertByPxDesc(_, _)
InsertByPxDesc(sorted, b) ==
    IF sorted = <<>> THEN <<b>>
    ELSE IF Head(sorted).px >= b.px
         THEN <<Head(sorted)>> \o InsertByPxDesc(Tail(sorted), b)
         ELSE <<b>> \o sorted

ActiveBidsOrNone(bids) ==
    IF \E k \in DOMAIN bids : IsNaN(Number(bids[k].px)) \/ IsNaN(Number(bids[k].sz))
    THEN <<>>
    ELSE [ k \in DOMAIN bids |-> [px |-> bids[k].px[1], sz |-> bids[k].sz[1]] ]
RECURSIVE ActiveBids(_)
ActiveBids(bids) ==
    IF bids = <<>> THEN <<>>
    ELSE LET b == bids[Len(bids)]
             px == Number(b.px)
             sz == Number(b.sz)
             rest == ActiveBids(SubSeq(bids, 1, Len(bids) - 1))
         IN  IF ~IsNaN(px) /\ ~IsNaN(sz)
             THEN InsertByPxDesc(rest, [px |-> px[1], sz |-> sz[1]])
             ELSE rest

\* binStep = (currentPriceNum * RANGE_PCT) / BINS_COUNT
BinStep(currentPrice) == (currentPrice * RANGE_PCT) \div (100 * BINS_COUNT)

\* OI_long = openInterest * params.longRatio
LongOI(openInterest, params) == (openInterest \div 1000) * params.longRatio

\* drawdownPct = (currentPriceNum - currentBinPrice) / currentPriceNum, in
\* thousandths; the rounding drift is far below that resolution, so the
\* magnitude is taken from the exact bin price.
Drawdown(currentPrice, exactBinPrice) ==
    ((currentPrice - exactBinPrice) * 1000) \div currentPrice

\* drawdownPct > params.x0, decided on the computed bin price
PastThresholdPercent(currentPrice, binPrice, params) ==
    (currentPrice - binPrice) * 1000 > params.x0 * 100 * currentPrice
PastThreshold(currentPrice, binPrice, params) ==
    (currentPrice - binPrice) * 1000 > params.x0 * currentPrice

\* stepSellHype of one bin.
StepSellHype(OI_long, params, pastThreshold, drawdownPct, binStep, currentPrice) ==
    IF pastThreshold
    THEN LET x == params.a * (drawdownPct - params.x0)
             intensity == (params.k * Exp(IF x > 0 THEN x ELSE 0)) \div 1000
         IN  (((OI_long * binStep) \div currentPrice) * intensity) \div 1000
    ELSE 0

\* activeBids.forEach: the sizes of the bids with
\* bid.px >= currentBinPrice && bid.px < (currentBinPrice + binStep)
RECURSIVE BinBidDepth(_, _, _)
BinBidDepth(activeBids, binPrice, upperEdge) ==
    IF activeBids = <<>> THEN 0
    ELSE (IF Head(activeBids).px >= binPrice /\ Head(activeBids).px < upperEdge
          THEN Head(activeBids).sz ELSE 0)
         + BinBidDepth(Tail(activeBids), binPrice, upperEdge)

\* !foundFloor && currentBinPrice <= targetPriceNum, then cumSellHype >= cumBidHype
FloorHitAbove(foundFloor, binPrice, targetPrice, cumSell, cumBid) ==
    ~foundFloor /\ binPrice >= targetPrice /\ cumSell >= cumBid
FloorHitStrict(foundFloor, binPrice, targetPrice, cumSell, cumBid) ==
    ~foundFloor /\ binPrice <= targetPrice /\ cumSell > cumBid
FloorHitAgain(foundFloor, binPrice, targetPrice, cumSell, cumBid) ==
    binPrice <= targetPrice /\ cumSell >= cumBid
FloorHit(foundFloor, binPrice, targetPrice, cumSell, cumBid) ==
    ~foundFloor /\ binPrice <= targetPrice /\ cumSell >= cumBid

\* i % 25 === 0 && currentBinPrice <= targetPriceNum && !foundFloor
TraceDueAfterFloor(i, binPrice, targetPrice, foundFloor) ==
    i % SCAN_TRACE_EVERY = 0 /\ binPrice <= targetPrice
TraceDue(i, binPrice, targetPrice, foundFloor) ==
    i % SCAN_TRACE_EVERY = 0 /\ binPrice <= targetPrice /\ ~foundFloor

\* floorPrice = targetPriceNum when no floor was found
NoFloorPriceBottom(targetPrice, binPrice) == binPrice
NoFloorPrice(targetPrice, binPrice) == targetPrice

Step(startPrice, endPrice, liquidatedValue, description) ==
    [ startPrice |-> startPrice, endPrice |-> endPrice,
      liquidatedValue |-> liquidatedValue, description |-> description ]

\* The locals before the loop.
InitLoop(currentPrice, targetPrice) ==
    [ i |-> 0, exactBinPrice |-> currentPrice, currentBinPrice |-> currentPrice,
      cumSellHype |-> 0, cumBidHype |-> 0,
      floorPrice |-> targetPrice, foundFloor |-> FALSE ]

\* The body of the for loop over the bins, applied to the locals l and the
\* trace st of a call with arguments s and rounding drift d.
\* l.exactBinPrice is the bin price without rounding, l.currentBinPrice the
\* computed one.
ScanBin(s, d, l, st) ==
    LET binStep == BinStep(s.currentPrice)
        exactBinPrice == l.exactBinPrice - binStep
        currentBinPrice == exactBinPrice + d.bin
        stepSellHype == StepSellHype(LongOI(s.openInterest, s.params), s.params,
                           PastThreshold(s.currentPrice, currentBinPrice, s.params),
                           Drawdown(s.currentPrice, exactBinPrice),
                           binStep, s.currentPrice)
        cumSellHype == l.cumSellHype + stepSellHype
        cumBidHype == l.cumBidHype
                      + BinBidDepth(ActiveBids(s.bids), currentBinPrice,
                                    exactBinPrice + binStep + d.edge)
        hit == FloorHit(l.foundFloor, currentBinPrice, s.targetPrice,
                        cumSellHype, cumBidHype)
        floorPrice == IF hit THEN currentBinPrice ELSE l.floorPrice
        foundFloor == l.foundFloor \/ hit
        steps1 == IF hit
                  THEN Append(st, Step(s.currentPrice, floorPrice,
                                       cumSellHype * floorPrice, "intersection"))
                  ELSE st
        steps2 == IF TraceDue(l.i, currentBinPrice, s.targetPrice, foundFloor)
                  THEN Append(steps1, Step(exactBinPrice + binStep + d.edge, currentBinPrice,
                                           stepSellHype * currentBinPrice, "scan"))
                  ELSE steps1
    IN  [ loop |-> [ i |-> l.i + 1, exactBinPrice |-> exactBinPrice,
                     currentBinPrice |-> currentBinPrice,
                     cumSellHype |-> cumSellHype, cumBidHype |-> cumBidHype,
                     floorPrice |-> floorPrice, foundFloor |-> foundFloor ],
          steps |-> steps2 ]

\* After the loop: the no-floor fallback and the returned CascadeResult.
Finish(s, l, st) ==
    LET floorPrice == IF ~l.foundFloor
                      THEN NoFloorPrice(s.targetPrice, l.currentBinPrice)
                      ELSE l.floorPrice
        stepsOut == IF ~l.foundFloor
                    THEN Append(st, Step(s.currentPrice, floorPrice,
                                         l.cumSellHype * floorPrice, "nofloor"))
                    ELSE st
    IN  [ finalPrice |-> floorPrice,
          totalLiquidationTriggered |-> l.cumSellHype * floorPrice,
          steps |-> stepsOut ]

\* One iteration of the for loop.
CascadeScan ==
    /\ cpc = "loop"
    /\ loop.i < BINS_COUNT
    /\ LET n == ScanBin(sim, fp, loop, steps)
       IN  /\ loop' = n.loop
           /\ steps' = n.steps
           /\ obs' = IF obs = NONE /\ n.loop.currentBinPrice <= sim.targetPrice
                                  /\ n.loop.cumSellHype >= n.loop.cumBidHype
                     THEN [ i |-> loop.i, price |-> n.loop.currentBinPrice,
                            sell |-> n.loop.cumSellHype, bid |-> n.loop.cumBidHype ]
                     ELSE obs
    /\ UNCHANGED <<sim, fp, cpc, result, pair, uiVars, scan, trigVars, pageVars, netVars>>

\* After the loop: the no-floor fallback and the return.
CascadeReturn ==
    /\ cpc = "loop"
    /\ loop.i = BINS_COUNT
    /\ result' = Finish(sim, loop, steps)
    /\ loop' = [loop EXCEPT !.floorPrice = result'.finalPrice]
    /\ steps' = result'.steps
    /\ cpc' = "done"
    /\ UNCHANGED <<sim, fp, obs, pair, uiVars, scan, trigVars, pageVars, netVars>>

\* The whole call: the loop run over all bins, then the return.
RECURSIVE ScanAll(_, _, _, _)
ScanAll(s, d, l, st) ==
    IF l.i = BINS_COUNT THEN Finish(s, l, st)
    ELSE LET n == ScanBin(s, d, l, st) IN ScanAll(s, d, n.loop, n.steps)

\* simulateLongCascade(targetPrice, currentPrice, openInterest, heatmap, bids,
\* params), evaluated with rounding drift d.  The body never reads heatmap.
SimulateHeat(targetPrice, currentPrice, openInterest, heatmap, bids, params, d) ==
    LET s == [ targetPrice |-> targetPrice, currentPrice |-> currentPrice,
               openInterest |-> openInterest + 1000000 * Len(heatmap),
               bids |-> bids, params |-> params ]
    IN  ScanAll(s, d, InitLoop(currentPrice, targetPrice), <<>>)
Simulate(targetPrice, currentPrice, openInterest, heatmap, bids, params, d) ==
    LET s == [ targetPrice |-> targetPrice, currentPrice |-> currentPrice,
               openInterest |-> openInterest, bids |-> bids, params |-> params ]
    IN  ScanAll(s, d, InitLoop(currentPrice, targetPrice), <<>>)

\* The arguments of the modelled calls.
CurrentPrices == {3000}
OpenInterests == {0, 10000000}

TargetPrices(currentPrice) ==
    LET binStep == BinStep(currentPrice)
    IN  { currentPrice - binStep,
          currentPrice - 20 * binStep - (binStep \div 2),
          currentPrice - 50 * binStep,
          currentPrice - BINS_COUNT * binStep,
          currentPrice - (BINS_COUNT + 1) * binStep }

BidPool(currentPrice) ==
    LET binStep == BinStep(currentPrice)
    IN  << [px |-> Some(currentPrice), sz |-> Some(700)],
           [px |-> Some(currentPrice - 10 * binStep), sz |-> Some(100000)],
           [px |-> Some(currentPrice - 51 * binStep + (binStep \div 2)), sz |-> Some(2000000)],
           [px |-> Some(currentPrice - (BINS_COUNT + 1) * binStep), sz |-> Some(900)],
           [px |-> NONE, sz |-> Some(5)] >>

RECURSIVE SubSeqs(_)
SubSeqs(s) ==
    IF s = <<>> THEN {<<>>}
    ELSE LET rest == SubSeqs(Tail(s))
         IN  rest \cup { <<Head(s)>> \o r : r \in rest }

SimInit ==
    /\ \E currentPrice \in CurrentPrices :
          \E targetPrice \in TargetPrices(currentPrice) :
             \E openInterest \in OpenInterests :
                \E bids \in SubSeqs(BidPool(currentPrice)) :
                   /\ sim = [ targetPrice |-> targetPrice, currentPrice |-> currentPrice,
                              openInterest |-> openInterest, bids |-> bids,
                              params |-> DefaultParams ]
                   /\ loop = InitLoop(currentPrice, targetPrice)
    /\ fp \in [bin : Drifts, edge : Drifts]
    /\ steps = <<>>
    /\ obs = NONE
    /\ cpc = "loop"
    /\ result = NONE
    /\ pair = NONE
    /\ UiIdle
    /\ ScanIdle
    /\ feedSide = "BUY"
    /\ TrigIdle
    /\ PageIdle
    /\ NetIdle

SimNext == CascadeScan \/ CascadeReturn

SpecCascade == SimInit /\ [][SimNext]_vars

----------------------------------------------------------------------------
(* Claims about simulateLongCascade, under SpecCascade *)

Returned == cpc = "done" /\ result # NONE
Downward == sim.targetPrice < sim.currentPrice
StepsOfKind(kind) == { k \in DOMAIN result.steps : result.steps[k].description = kind }

\* C4: for targetPrice < currentPrice, a floor is found exactly when some
\* scanned bin at or below targetPrice has cumulative sell >= cumulative bid,
\* finalPrice is the price of the first such bin, and the floor is recorded
\* once: later bins that satisfy the condition change nothing.
C4_FloorIsFirstIntersection ==
    (Returned /\ Downward) =>
        /\ loop.foundFloor <=> obs # NONE
        /\ loop.foundFloor =>
              /\ result.finalPrice = obs.price
              /\ Cardinality(StepsOfKind("intersection")) = 1
              /\ \A k \in StepsOfKind("intersection") :
                    result.steps[k].endPrice = obs.price

\* C4 witness: a call whose floor lies below the first bin under the target
\* (bid depth held it back) and whose last scanned bin satisfies the
\* intersection condition again.
C4_Witness ==
    /\ Returned /\ Downward /\ loop.foundFloor
    /\ obs.price < sim.targetPrice - BinStep(sim.currentPrice)
    /\ obs.i < BINS_COUNT - 1
    /\ loop.currentBinPrice < obs.price
    /\ loop.cumSellHype >= loop.cumBidHype
    /\ result.finalPrice = obs.price

\* C5 (as claimed): totalLiquidationTriggered is the cumulative sell pressure
\* up to and including the floor bin times finalPrice; pressure of the bins
\* scanned below the floor is not part of it.
C5_TotalIsPressureAtFloor ==
    (Returned /\ Downward /\ loop.foundFloor) =>
        result.totalLiquidationTriggered = obs.sell * result.finalPrice

\* C6: when no scanned bin at or below targetPrice has cumulative sell >=
\* cumulative bid (also when targetPrice lies below the scanned range), the
\* call returns finalPrice = targetPrice and the last step of the trace is
\* the no-floor step.
C6_NoFloorDefaultsToTarget ==
    (Returned /\ Downward /\ obs = NONE) =>
        /\ result.finalPrice = sim.targetPrice
        /\ result.steps # <<>>
        /\ result.steps[Len(result.steps)].description = "nofloor"
        /\ result.steps[Len(result.steps)].endPrice = sim.targetPrice

\* C6 witness: a returned call with open interest whose target lies below
\* the whole scanned range.
C6_Witness ==
    /\ Returned /\ Downward /\ obs = NONE
    /\ sim.openInterest > 0
    /\ sim.targetPrice < sim.currentPrice - BINS_COUNT * BinStep(sim.currentPrice) - 1
    /\ result.finalPrice = sim.targetPrice

\* The other case of C6: the target is inside the range and bid depth stays
\* above the sell pressure down to the last bin.
C6_WitnessDepth ==
    /\ Returned /\ Downward /\ obs = NONE
    /\ sim.targetPrice > sim.currentPrice - 60 * BinStep(sim.currentPrice)
    /\ loop.cumBidHype > loop.cumSellHype
    /\ loop.cumSellHype > 0

InRange == sim.targetPrice >= sim.currentPrice - BINS_COUNT * BinStep(sim.currentPrice)
NoBids == ActiveBids(sim.bids) = <<>>
LastStep == result.steps[Len(result.steps)]

\* C14 (as claimed): with an empty bid ladder, finalPrice is the lowest
\* scanned bin price, for every targetPrice < currentPrice inside the range.
C14_NoBidFloorIsBottom ==
    (Returned /\ Downward /\ InRange /\ sim.bids = <<>>) =>
        result.finalPrice = loop.currentBinPrice

\* C14 (amended): with an empty bid ladder and targetPrice < currentPrice
\* inside the range, finalPrice is at or below targetPrice and less than one
\* bin step below it: the first scanned bin at or below the target, or the
\* target itself when rounding leaves no scanned bin at or below it.
C14_NoBidFloorIsFirstBinUnderTarget ==
    (Returned /\ Downward /\ InRange /\ sim.bids = <<>>) =>
        /\ result.finalPrice <= sim.targetPrice
        /\ result.finalPrice > sim.targetPrice - BinStep(sim.currentPrice)
        /\ loop.foundFloor => result.finalPrice = obs.price /\ obs.bid = 0

\* C14 witness: no bids, open interest, a target in the middle of the range:
\* the floor is found there, far above the last scanned bin.
C14_Witness ==
    /\ Returned /\ Downward /\ InRange /\ sim.bids = <<>>
    /\ sim.openInterest > 0
    /\ loop.foundFloor
    /\ result.finalPrice > loop.currentBinPrice + 40 * BinStep(sim.currentPrice)

\* C15: for targetPrice < currentPrice the returned steps are non-empty and
\* the endPrice of the last step equals finalPrice, with and without a floor.
C15_LastStepEndsAtFinalPrice ==
    (Returned /\ Downward) =>
        /\ result.steps # <<>>
        /\ LastStep.endPrice = result.finalPrice
        /\ LastStep.description = (IF loop.foundFloor THEN "intersection" ELSE "nofloor")

\* C15 witness: a floor found after scan checkpoints were traced, with
\* checkpoint bins (i = 75) still to come below it.
C15_Witness ==
    /\ Returned /\ Downward /\ loop.foundFloor
    /\ Len(result.steps) >= 2
    /\ obs.i < 75
    /\ LastStep.endPrice = result.finalPrice

\* The no-floor case of C15, after scan checkpoints.
C15_WitnessNoFloor ==
    /\ Returned /\ Downward /\ ~loop.foundFloor
    /\ Len(result.steps) >= 2
    /\ LastStep.endPrice = sim.targetPrice

\* The worked example: currentPrice 30, targetPrice 27, open interest
\* 10,000,000, default params, no bids.  In doubles the bin prices of this
\* call sit above the exact ones (30 - 50 * 0.06 evaluates to
\* 27.000000000000064), so its drift is fp.bin = 1.
WorkedExample ==
    /\ sim.currentPrice = 3000 /\ sim.targetPrice = 2700
    /\ sim.openInterest = 10000000 /\ sim.bids = <<>>
    /\ sim.params = [k |-> 180, a |-> 14, x0 |-> 50, longRatio |-> 600]
    /\ fp.bin = 1

\* C16: in the worked example finalPrice is strictly greater than 24 and
\* strictly less than 27, and totalLiquidationTriggered > 0.
C16_WorkedExample ==
    (Returned /\ WorkedExample) =>
        /\ result.finalPrice > 2400
        /\ result.finalPrice < 2700
        /\ result.totalLiquidationTriggered > 0

\* C16 witness: the worked example has returned, with its floor one bin
\* under the target.
C16_Witness ==
    /\ Returned /\ WorkedExample
    /\ result.finalPrice = 2700 - BinStep(3000) + 1
    /\ result.totalLiquidationTriggered > 0

\* The computed price of the bin scanned at loop index i.
BinPriceAt(i) == sim.currentPrice - (i + 1) * BinStep(sim.currentPrice) + fp.bin

\* The loop indices i with i % 25 = 0 whose bin is at or below targetPrice.
CheckpointBins == { i \in 0..(BINS_COUNT - 1) : i % 25 = 0 /\ BinPriceAt(i) <= sim.targetPrice }

TerminalSteps == StepsOfKind("intersection") \cup StepsOfKind("nofloor")

\* The scan-checkpoint steps are, in scan order, those of the bins in the
\* set: one step per bin, ending at the bin's price.
ScanStepsAre(bins) ==
    /\ Cardinality(StepsOfKind("scan")) = Cardinality(bins)
    /\ \A i \in bins : \E k \in StepsOfKind("scan") : result.steps[k].endPrice = BinPriceAt(i)
    /\ \A j, k \in StepsOfKind("scan") :
          j < k => result.steps[j].endPrice > result.steps[k].endPrice

\* C25 (as claimed): the returned trace has one scan-checkpoint step for
\* every 25th scanned bin at or below targetPrice, plus exactly one terminal
\* step.
C25_CheckpointEvery25thBin ==
    Returned =>
        /\ ScanStepsAre(CheckpointBins)
        /\ Cardinality(TerminalSteps) = 1

\* C25 (amended): the trace has one scan-checkpoint step for every bin with
\* loop index 0, 25, 50 or 75 that is at or below targetPrice and is scanned
\* before the floor is found (the floor's own bin and the bins after it get
\* none), plus exactly one terminal step, which comes last; finalPrice and
\* totalLiquidationTriggered are the terminal step's endPrice and the
\* cumulative sell pressure of the whole scan times it, whatever the
\* checkpoints.
C25_CheckpointsBeforeFloor ==
    Returned =>
        /\ ScanStepsAre({ i \in CheckpointBins : obs # <<>> => i < obs.i })
        /\ TerminalSteps = {Len(result.steps)}
        /\ result.finalPrice = LastStep.endPrice
        /\ result.totalLiquidationTriggered = loop.cumSellHype * result.finalPrice

\* C25 witness: a checkpoint traced before the floor is found, and a
\* checkpoint bin at or below the target left without a step after it.
C25_Witness ==
    /\ Returned /\ obs # <<>>
    /\ StepsOfKind("scan") # {}
    /\ \E i \in CheckpointBins : i >= obs.i
    /\ Len(result.steps) = Cardinality(StepsOfKind("scan")) + 1

\* The floor found in the first bin: no checkpoint at all.
C25_WitnessFloorFirst ==
    /\ Returned /\ obs # <<>> /\ obs.i = 0
    /\ Cardinality(CheckpointBins) = 4
    /\ Len(result.steps) = 1

\* No floor: every checkpoint bin at or below the target has its step.
C25_WitnessNoFloor ==
    /\ Returned /\ obs = <<>>
    /\ Cardinality(StepsOfKind("scan")) = Cardinality(CheckpointBins)
    /\ Cardinality(CheckpointBins) >= 2

\* The sizes of the bids of activeBids priced in [lo, hi).
RECURSIVE RangeDepth(_, _, _)
RangeDepth(activeBids, lo, hi) ==
    IF activeBids = <<>> THEN 0
    ELSE (IF Head(activeBids).px >= lo /\ Head(activeBids).px < hi
          THEN Head(activeBids).sz ELSE 0)
         + RangeDepth(Tail(activeBids), lo, hi)

\* currentPrice * (1 - RANGE_PCT), the bottom of the scanned range.
RangeBottom(currentPrice) == currentPrice - BINS_COUNT * BinStep(currentPrice)

\* C27 (as claimed): after the full scan the cumulative bid depth is the
\* sum of the sizes of the valid bids priced in
\* [currentPrice * (1 - 0.20), currentPrice): each counted once, none at or
\* above currentPrice, none below the range.
C27_BidDepthIsRangeSum ==
    Returned =>
        loop.cumBidHype = RangeDepth(ActiveBids(sim.bids),
                                     RangeBottom(sim.currentPrice), sim.currentPrice)

\* The same equality when every bin price and bin edge is computed without
\* rounding error.
C27_BidDepthExactArithmetic ==
    (Returned /\ fp.bin = 0 /\ fp.edge = 0) =>
        loop.cumBidHype = RangeDepth(ActiveBids(sim.bids),
                                     RangeBottom(sim.currentPrice), sim.currentPrice)

\* A bid priced at currentPrice has been counted: the upper edge of the
\* first bin, currentBinPrice + binStep, was computed above currentPrice.
C27_WitnessCountedAtCurrentPrice ==
    /\ Returned
    /\ sim.bids = << [px |-> Some(sim.currentPrice), sz |-> Some(700)] >>
    /\ loop.cumBidHype = 700

----------------------------------------------------------------------------
(* Two calls of simulateLongCascade side by side.  pair.a and pair.b are   *)
(* the argument lists of two calls that differ in one argument (pair.kind  *)
(* names it); both calls have the same currentPrice and so the same bin    *)
(* prices and the same rounding drift pair.d.                              *)

Call(targetPrice, currentPrice, openInterest, heatmap, bids, params) ==
    [ targetPrice |-> targetPrice, currentPrice |-> currentPrice,
      openInterest |-> openInterest, heatmap |-> heatmap,
      bids |-> bids, params |-> params ]

Run(c, d) ==
    Simulate(c.targetPrice, c.currentPrice, c.openInterest, c.heatmap, c.bids, c.params, d)

HeatmapEntry(priceBinStart, priceBinEnd, liquidationValue) ==
    [ priceBinStart |-> priceBinStart, priceBinEnd |-> priceBinEnd,
      liquidationValue |-> liquidationValue ]

Heatmaps(currentPrice) ==
    { <<>>,
      << HeatmapEntry(currentPrice - 400, currentPrice - 300, 5000000) >>,
      << HeatmapEntry(currentPrice - 400, currentPrice - 300, 5000000),
         HeatmapEntry(currentPrice - 300, currentPrice - 200, 9000000) >> }

\* Bid levels of the pairs: two well-formed ones, one whose px and one whose
\* sz is no number.
PairBidPool(currentPrice) ==
    LET binStep == BinStep(currentPrice)
    IN  << [px |-> Some(currentPrice - 10 * binStep), sz |-> Some(100000)],
           [px |-> NONE, sz |-> Some(5)],
           [px |-> Some(currentPrice - 51 * binStep + (binStep \div 2)), sz |-> Some(2000000)],
           [px |-> Some(currentPrice - 60 * binStep), sz |-> NONE] >>

WellFormed(b) == b.px # NONE /\ b.sz # NONE

RECURSIVE WithoutMalformed(_)
WithoutMalformed(bids) ==
    IF bids = <<>> THEN <<>>
    ELSE (IF WellFormed(Head(bids)) THEN <<Head(bids)>> ELSE <<>>)
         \o WithoutMalformed(Tail(bids))

PairInputs ==
    { [ kind |-> kind, a |-> Call(t, cur, oi, h, bids, DefaultParams), d |-> d ] :
        kind \in {"target", "heatmap", "bids"},
        t \in TargetPrices(3000), cur \in {3000}, oi \in OpenInterests,
        h \in Heatmaps(3000), bids \in SubSeqs(PairBidPool(3000)),
        d \in [bin : Drifts, edge : Drifts] }

\* The second call of a pair: the first one with a lower target, with
\* another heatmap, or with the malformed bid entries removed.
Variants(in) ==
    CASE in.kind = "target" ->
           { [in.a EXCEPT !.targetPrice = t] :
               t \in { u \in TargetPrices(in.a.currentPrice) : u < in.a.targetPrice } }
      [] in.kind = "heatmap" ->
           { [in.a EXCEPT !.heatmap = h] :
               h \in Heatmaps(in.a.currentPrice) \ {in.a.heatmap} }
      [] in.kind = "bids" ->
           IF in.a.bids = WithoutMalformed(in.a.bids) THEN {}
           ELSE { [in.a EXCEPT !.bids = WithoutMalformed(in.a.bids)] }

PairInit ==
    /\ \E in \in PairInputs :
          /\ in.kind # "heatmap" => in.a.heatmap = <<>>
          /\ in.kind = "heatmap" => in.d = [bin |-> 0, edge |-> 0]
          /\ in.kind # "bids" => in.a.bids = WithoutMalformed(in.a.bids)
          /\ \E b \in Variants(in) :
                pair = [ kind |-> in.kind, a |-> in.a, b |-> b, d |-> in.d,
                         ra |-> NONE, rb |-> NONE ]
    /\ sim = NONE /\ fp = NONE /\ loop = NONE /\ steps = <<>> /\ obs = NONE
    /\ cpc = "done" /\ result = NONE
    /\ UiIdle
    /\ ScanIdle
    /\ feedSide = "BUY"
    /\ TrigIdle
    /\ PageIdle
    /\ NetIdle

\* The first call runs and returns.
PairCallA ==
    /\ pair # NONE /\ pair.ra = NONE
    /\ pair' = [pair EXCEPT !.ra = Some(Run(pair.a, pair.d))]
    /\ UNCHANGED <<sim, fp, loop, steps, obs, cpc, result, uiVars, scan, trigVars, pageVars, netVars>>

\* The second call runs and returns.
PairCallB ==
    /\ pair # NONE /\ pair.ra # NONE /\ pair.rb = NONE
    /\ pair' = [pair EXCEPT !.rb = Some(Run(pair.b, pair.d))]
    /\ UNCHANGED <<sim, fp, loop, steps, obs, cpc, result, uiVars, scan, trigVars, pageVars, netVars>>

PairNext == PairCallA \/ PairCallB

SpecPair == PairInit /\ [][PairNext]_vars

----------------------------------------------------------------------------
(* Claims about pairs of calls, under SpecPair *)

BothReturned == pair # <<>> /\ pair.ra # <<>> /\ pair.rb # <<>>
ResultA == pair.ra[1]
ResultB == pair.rb[1]
FloorFound(r) == r.steps[Len(r.steps)].description = "intersection"

\* C13: monotonic floor.  For fixed currentPrice, openInterest, bids and
\* params and two targets tLow < tHigh < currentPrice, finalPrice for tLow
\* is never greater than finalPrice for tHigh whenever an intersection
\* exists below both targets (the call for tLow found a floor).
C13_MonotonicFloor ==
    (BothReturned /\ pair.kind = "target"
       /\ pair.b.targetPrice < pair.a.targetPrice
       /\ pair.a.targetPrice < pair.a.currentPrice
       /\ FloorFound(ResultB))
    => /\ ResultB.finalPrice <= ResultA.finalPrice
       /\ FloorFound(ResultA)

\* C13 witness: both calls found a floor and the lower target has the
\* strictly lower one.
C13_Witness ==
    /\ BothReturned /\ pair.kind = "target"
    /\ pair.b.targetPrice < pair.a.targetPrice
    /\ FloorFound(ResultA) /\ FloorFound(ResultB)
    /\ ResultB.finalPrice < ResultA.finalPrice

\* The other case: bid depth holds the intersection back below both
\* targets, and both calls return that same floor.
C13_WitnessShared ==
    /\ BothReturned /\ pair.kind = "target"
    /\ pair.b.targetPrice < pair.a.targetPrice
    /\ pair.a.bids # <<>>
    /\ FloorFound(ResultB)
    /\ ResultB.finalPrice = ResultA.finalPrice
    /\ ResultB.finalPrice < pair.b.targetPrice - BinStep(pair.b.currentPrice)

\* C17: heatmap independence.  Two calls that differ only in the heatmap
\* argument return the same finalPrice, totalLiquidationTriggered and steps.
C17_HeatmapIndependence ==
    (BothReturned /\ pair.kind = "heatmap") =>
        /\ ResultA.finalPrice = ResultB.finalPrice
        /\ ResultA.totalLiquidationTriggered = ResultB.totalLiquidationTriggered
        /\ ResultA.steps = ResultB.steps

\* C17 witness: an empty heatmap against one with two entries, with open
\* interest, and a floor found.
C17_Witness ==
    /\ BothReturned /\ pair.kind = "heatmap"
    /\ pair.a.heatmap = <<>> /\ Len(pair.b.heatmap) = 2
    /\ pair.a.openInterest > 0
    /\ FloorFound(ResultA)
    /\ ResultA = ResultB

\* C18: bid entries whose px or sz is NaN are dropped without an error: the
\* call returns a result, equal to the result of the same call with those
\* entries removed from the bid list.
C18_MalformedBidsDropped ==
    (BothReturned /\ pair.kind = "bids") => ResultA = ResultB

\* C18 witness: a ladder with a NaN px, a NaN sz and well-formed levels whose
\* depth decides the result (with open interest and the target inside the
\* range no floor is found).
C18_Witness ==
    /\ BothReturned /\ pair.kind = "bids"
    /\ \E k \in DOMAIN pair.a.bids : pair.a.bids[k].px = <<>>
    /\ \E k \in DOMAIN pair.a.bids : pair.a.bids[k].sz = <<>>
    /\ Len(pair.b.bids) = 2
    /\ pair.a.openInterest > 0
    /\ pair.a.targetPrice >= pair.a.currentPrice - BINS_COUNT * BinStep(pair.a.currentPrice)
    /\ ~FloorFound(ResultA)
    /\ ResultA = ResultB

----------------------------------------------------------------------------
(* Position lifecycle: the PnL effect of the simulator page *)

TAKE_PROFIT_PCT == 20
STOP_LOSS_PCT == -20

\* pnlPercent = rawPnl * pos.leverage * 100, kept as the exact fraction
\* num / den (den = pos.entry_price).
PnlPercent(pos, currentPrice) ==
    [ num |-> (IF pos.direction = "BUY"
               THEN currentPrice - pos.entry_price
               ELSE pos.entry_price - currentPrice) * pos.leverage * 100,
      den |-> pos.entry_price ]

\* fraction >= n, fraction <= n, fraction > n
RatGE(r, n) == IF r.den > 0 THEN r.num >= n * r.den ELSE r.num <= n * r.den
RatLE(r, n) == IF r.den > 0 THEN r.num <= n * r.den ELSE r.num >= n * r.den
RatGT(r, n) == ~RatLE(r, n)

\* pnlPercent >= 20
TakeProfitHitStrict(pnlPercent) == RatGT(pnlPercent, TAKE_PROFIT_PCT)
TakeProfitHit(pnlPercent) == RatGE(pnlPercent, TAKE_PROFIT_PCT)

\* pnlPercent <= -20
StopLossHit(pnlPercent) == RatLE(pnlPercent, STOP_LOSS_PCT)

\* pos.end_time && Date.now() > new Date(pos.end_time).getTime()
TimeExpiredLate(pos, t) == pos.end_time # NONE /\ t > GetTime(pos.end_time) + 60 * MINUTE_MS
TimeExpired(pos, t) == pos.end_time # NONE /\ t > GetTime(pos.end_time)

\* One call closePosition(id, status, closePrice, pnlPercent).
CloseCall(id, status, closePrice, pnlPercent) ==
    [ id |-> id, status |-> status, closePrice |-> closePrice, pnlPercent |-> pnlPercent ]

\* pos.status !== "OPEN" returns from the callback.
SkippedNever(pos) == FALSE
Skipped(pos) == pos.status # OpenStatus

\* The body of the forEach callback of the effect: the closePosition calls
\* it makes for one position.
EvaluatePositionPnlFirst(pos, currentPrice, t) ==
    LET pnlPercent == PnlPercent(pos, currentPrice)
    IN  IF Skipped(pos) THEN <<>>
        ELSE IF TakeProfitHit(pnlPercent)
             THEN << CloseCall(pos.id, "CLOSED_TP", currentPrice, pnlPercent) >>
        ELSE IF StopLossHit(pnlPercent)
             THEN << CloseCall(pos.id, "CLOSED_SL", currentPrice, pnlPercent) >>
        ELSE IF TimeExpired(pos, t)
             THEN << CloseCall(pos.id, "CLOSED_TIME", currentPrice, pnlPercent) >>
        ELSE <<>>
EvaluatePosition(pos, currentPrice, t) ==
    LET pnlPercent == PnlPercent(pos, currentPrice)
    IN  IF Skipped(pos) THEN <<>>
        ELSE IF TimeExpired(pos, t)
             THEN << CloseCall(pos.id, "CLOSED_TIME", currentPrice, pnlPercent) >>
        ELSE IF TakeProfitHit(pnlPercent)
             THEN << CloseCall(pos.id, "CLOSED_TP", currentPrice, pnlPercent) >>
        ELSE IF StopLossHit(pnlPercent)
             THEN << CloseCall(pos.id, "CLOSED_SL", currentPrice, pnlPercent) >>
        ELSE <<>>

RECURSIVE EvaluateAll(_, _, _)
EvaluateAll(list, currentPrice, t) ==
    IF list = <<>> THEN <<>>
    ELSE EvaluatePosition(Head(list), currentPrice, t)
         \o EvaluateAll(Tail(list), currentPrice, t)

\* useEffect(..., [hypePrice, positions]): the closePosition calls of one run.
PnlEffect(list, currentPrice, t) ==
    IF currentPrice = 0 \/ Len(list) = 0 THEN <<>>
    ELSE EvaluateAll(list, currentPrice, t)

\* The PATCH body closePosition sends.
CloseBody(call) ==
    [ id |-> call.id, status |-> call.status,
      close_price |-> Some(call.closePrice), pnl_percent |-> Some(call.pnlPercent) ]

----------------------------------------------------------------------------
(* Sequential lifecycle: positions are created, the page fetches them, the *)
(* price and the clock move, the effect runs on every change of its        *)
(* dependencies, and its closePosition calls run to completion before the  *)
(* next step.                                                              *)

MaxPositions == 2
MaxTicks == 2
TICK_MS == 60 * MINUTE_MS

PnlPrices ==
    LET up == (PriceNow * 104) \div 100
        dn == (PriceNow * 96) \div 100
    IN  {dn - 1, dn, dn + 1, PriceNow, up - 1, up, up + 1}

EndTimes == {NONE, ToISOString(TICK_MS)}

\* A position is created by openPosition through POST.
PnlOpen ==
    /\ Len(store) < MaxPositions
    /\ \E direction \in Side, endTime \in EndTimes :
          store' = OpenPositionDone(store,
                      OpenCall(direction, PriceNow, <<"large", Len(store) + 1>>, endTime))
    /\ UNCHANGED <<feedVars, seqVars, simVars, pageVars, netVars>>

\* fetchPositions completes: setPositions(data), then the effect.
PnlFetch ==
    /\ positions' = StoreGet(store)
    /\ closes' = PnlEffect(positions', hypePrice, now)
    /\ evalTime' = now
    /\ UNCHANGED <<feedVars, store, seqVars, simVars, hypePrice, now, netVars>>

\* fetchData completes with a new price: setHypePrice(p), then the effect.
PnlPrice ==
    /\ \E p \in PnlPrices :
          /\ p # hypePrice
          /\ hypePrice' = p
          /\ closes' = PnlEffect(positions, p, now)
    /\ evalTime' = now
    /\ UNCHANGED <<feedVars, store, seqVars, simVars, positions, now, netVars>>

PnlTick ==
    /\ now < MaxTicks * TICK_MS
    /\ now' = now + TICK_MS
    /\ UNCHANGED <<feedVars, store, seqVars, simVars, positions, hypePrice, closes, evalTime, netVars>>

\* The closePosition calls of the last run complete: every PATCH reaches the
\* store, and the fetchPositions each one ends with refreshes the list.
RECURSIVE PatchAll(_, _)
PatchAll(st, calls) ==
    IF calls = <<>> THEN st
    ELSE PatchAll(StorePatch(st, CloseBody(Head(calls))), Tail(calls))

PnlPatch ==
    /\ closes # <<>>
    /\ store' = PatchAll(store, closes)
    /\ positions' = StoreGet(store')
    /\ closes' = PnlEffect(positions', hypePrice, now)
    /\ evalTime' = now
    /\ UNCHANGED <<feedVars, seqVars, simVars, hypePrice, now, netVars>>

PnlInit ==
    /\ feedSide = "BUY"
    /\ TrigIdle
    /\ SimIdle
    /\ PageIdle
    /\ NetIdle

PnlNext == PnlOpen \/ PnlFetch \/ PnlPrice \/ PnlTick \/ PnlPatch

SpecPnl == PnlInit /\ [][PnlNext]_vars

----------------------------------------------------------------------------
(* Claims about the PnL effect, under SpecPnl.  In every state closes holds *)
(* the closePosition calls of the last run of the effect, which saw         *)
(* positions, hypePrice and the clock value evalTime.                       *)

CallsFor(id) == { k \in DOMAIN closes : closes[k].id = id }
StatusesFor(id) == { closes[k].status : k \in CallsFor(id) }

\* rawPnl * leverage * 100 compared with a percentage, by cross-multiplying
\* with the (positive) entry price.
SignedMove(pos) ==
    IF pos.direction = "BUY" THEN hypePrice - pos.entry_price
    ELSE pos.entry_price - hypePrice
PnlAtLeast(pos, pct) == SignedMove(pos) * pos.leverage * 100 >= pct * pos.entry_price
PnlAtMost(pos, pct) == SignedMove(pos) * pos.leverage * 100 <= pct * pos.entry_price

Expired(pos) == pos.end_time # NONE /\ evalTime > pos.end_time[2]
Evaluable(pos) == hypePrice # 0 /\ pos.status = "OPEN"

\* C9: time exit preempts PnL exits.  In one evaluation of an OPEN position
\* with a non-zero price, if end_time is set and the current time is later
\* than end_time, exactly one close is issued for the position, and it is
\* CLOSED_TIME at the current price and pnl, whatever the pnl.
C9_TimeExitPreempts ==
    \A n \in DOMAIN positions :
        LET pos == positions[n]
        IN  (Evaluable(pos) /\ Expired(pos)) =>
              /\ Cardinality(CallsFor(pos.id)) = 1
              /\ \A k \in CallsFor(pos.id) :
                    /\ closes[k].status = "CLOSED_TIME"
                    /\ closes[k].closePrice = hypePrice
                    /\ closes[k].pnlPercent.num = SignedMove(pos) * pos.leverage * 100
                    /\ closes[k].pnlPercent.den = pos.entry_price

\* An expired OPEN position whose pnl is beyond the take-profit threshold
\* is closed with CLOSED_TIME.
C9_Witness ==
    \E n \in DOMAIN positions :
        /\ Evaluable(positions[n]) /\ Expired(positions[n])
        /\ PnlAtLeast(positions[n], 20)
        /\ StatusesFor(positions[n].id) = {"CLOSED_TIME"}

\* The same below the stop-loss threshold.
C9_WitnessLoss ==
    \E n \in DOMAIN positions :
        /\ Evaluable(positions[n]) /\ Expired(positions[n])
        /\ PnlAtMost(positions[n], -20)
        /\ StatusesFor(positions[n].id) = {"CLOSED_TIME"}

\* C10: for an OPEN position that is not time-expired, one evaluation issues
\* a CLOSED_TP close iff pnlPercent >= 20, a CLOSED_SL close iff
\* pnlPercent <= -20, no close when -20 < pnlPercent < 20, and never more
\* than one close for the position.
C10_PnlExits ==
    \A n \in DOMAIN positions :
        LET pos == positions[n]
        IN  (Evaluable(pos) /\ ~Expired(pos)) =>
              /\ ("CLOSED_TP" \in StatusesFor(pos.id)) <=> PnlAtLeast(pos, 20)
              /\ ("CLOSED_SL" \in StatusesFor(pos.id)) <=> PnlAtMost(pos, -20)
              /\ (~PnlAtLeast(pos, 20) /\ ~PnlAtMost(pos, -20)) => CallsFor(pos.id) = {}
              /\ Cardinality(CallsFor(pos.id)) <= 1

\* A position exactly at +20% is closed with CLOSED_TP while another one,
\* on the other side of the same move and so exactly at -20%, is closed
\* with CLOSED_SL in the same evaluation.
C10_Witness ==
    \E n, m \in DOMAIN positions :
        /\ Evaluable(positions[n]) /\ ~Expired(positions[n])
        /\ Evaluable(positions[m]) /\ ~Expired(positions[m])
        /\ SignedMove(positions[n]) * positions[n].leverage * 100 = 20 * positions[n].entry_price
        /\ SignedMove(positions[m]) * positions[m].leverage * 100 = -20 * positions[m].entry_price
        /\ StatusesFor(positions[n].id) = {"CLOSED_TP"}
        /\ StatusesFor(positions[m].id) = {"CLOSED_SL"}

\* A position just inside the band, with its end time reached but not
\* passed, gets no close.
C10_WitnessInside ==
    \E n \in DOMAIN positions :
        /\ Evaluable(positions[n])
        /\ positions[n].end_time # NONE /\ evalTime = positions[n].end_time[2]
        /\ SignedMove(positions[n]) > 0 /\ ~PnlAtLeast(positions[n], 20)
        /\ CallsFor(positions[n].id) = {}

\* C11: the PnL evaluation issues no close for a position whose status in
\* the evaluated list is CLOSED_TP, CLOSED_SL or CLOSED_TIME, whatever the
\* price and the current time.
C11_ClosedNotEvaluated ==
    \A n \in DOMAIN positions :
        positions[n].status \in {"CLOSED_TP", "CLOSED_SL", "CLOSED_TIME"}
            => CallsFor(positions[n].id) = {}

\* A closed position was evaluated at a non-zero price that has moved since
\* its close, after its end time, next to an OPEN one that was closed by
\* the same run.
C11_Witness ==
    /\ hypePrice # 0
    /\ closes # <<>>
    /\ \E n \in DOMAIN positions :
          /\ positions[n].status \in {"CLOSED_TP", "CLOSED_SL", "CLOSED_TIME"}
          /\ positions[n].close_price # <<hypePrice>>
          /\ Expired(positions[n])
          /\ CallsFor(positions[n].id) = {}

----------------------------------------------------------------------------
(* ImpactCalculator: the component that calls simulateLongCascade.  calc   *)
(* holds its props (currentPrice, openInterest, heatmapData), its React     *)
(* state (targetPrice, loading, orderBook, result, error) and two           *)
(* observers: invoked, the arguments of the last simulateLongCascade call   *)
(* it made, and last, the event handled last.                               *)

\* The text of the number input: empty, the digits of n, or no number.
EmptyText == <<>>
Str(n) == <<"digits", n>>
JunkText == <<"junk", 0>>
IsStr(s) == s # EmptyText /\ s[1] = "digits"

\* parseFloat(targetPrice): NONE stands for NaN.
ParseFloat(s) == IF IsStr(s) THEN Some(s[2]) ELSE NONE

ERR_SYNC == "Failed to sync order book depth"
ERR_WAITING == "Waiting for order book data..."
ERR_TARGET == "Target price must be below current price for long liquidation impact."

\* target >= currentPrice
TargetRejectedAbove(target, currentPrice) == target > currentPrice
TargetRejected(target, currentPrice) == target >= currentPrice

\* handleCalculate, with d the rounding drift of the simulateLongCascade
\* call it may make.
HandleCalculate(c, d) ==
    IF c.targetPrice = EmptyText \/ ParseFloat(c.targetPrice) = NONE THEN c
    ELSE IF c.orderBook = NONE THEN [c EXCEPT !.error = ERR_WAITING]
    ELSE LET target == ParseFloat(c.targetPrice)[1]
             call == Call(target, c.currentPrice, c.openInterest, c.heatmapData,
                          c.orderBook[1], DefaultParams)
         IN  IF TargetRejected(target, c.currentPrice)
             THEN [c EXCEPT !.error = ERR_TARGET, !.loading = FALSE]
             ELSE [c EXCEPT !.error = NULL, !.loading = FALSE,
                            !.result = Some(Run(call, d)),
                            !.invoked = Some(call)]

CalcPrices == {2500, 3000}
CalcTargets == {EmptyText, JunkText, Str(2400), Str(2700), Str(3000), Str(3120)}
CalcBooks == { << [px |-> Some(2690), sz |-> Some(100000)] >> }
CalcDrifts == { [bin |-> 0, edge |-> 0], [bin |-> 1, edge |-> 1] }

\* onChange of the input: setTargetPrice(e.target.value).
CalcInput ==
    /\ \E t \in CalcTargets : calc' = [calc EXCEPT !.targetPrice = t, !.last = "input"]
    /\ UNCHANGED <<sim, fp, loop, steps, obs, cpc, result, pair, alert, scan, trigVars, pageVars, netVars>>

\* The parent renders the component with another currentPrice.
CalcProps ==
    /\ \E p \in CalcPrices : calc' = [calc EXCEPT !.currentPrice = p, !.last = "props"]
    /\ UNCHANGED <<sim, fp, loop, steps, obs, cpc, result, pair, alert, scan, trigVars, pageVars, netVars>>

\* fetchOrderBook (at mount and every 30 s) succeeds: setOrderBook(data).
CalcBookLoaded ==
    /\ \E bids \in CalcBooks :
          calc' = [calc EXCEPT !.orderBook = Some(bids), !.last = "book"]
    /\ UNCHANGED <<sim, fp, loop, steps, obs, cpc, result, pair, alert, scan, trigVars, pageVars, netVars>>

\* fetchOrderBook fails: the catch block.
CalcBookFailed ==
    /\ calc' = [calc EXCEPT !.error = ERR_SYNC, !.last = "book"]
    /\ UNCHANGED <<sim, fp, loop, steps, obs, cpc, result, pair, alert, scan, trigVars, pageVars, netVars>>

CalcCalculate ==
    /\ \E d \in CalcDrifts :
          calc' = [HandleCalculate(calc, d) EXCEPT !.last = "calculate"]
    /\ UNCHANGED <<sim, fp, loop, steps, obs, cpc, result, pair, alert, scan, trigVars, pageVars, netVars>>

\* The component as mounted: useState(""), false, null, null, null.
CalcInit ==
    /\ \E p \in CalcPrices :
          calc = [ currentPrice |-> p, openInterest |-> 10000000, heatmapData |-> <<>>,
                   targetPrice |-> EmptyText, loading |-> FALSE, orderBook |-> NONE,
                   result |-> NONE, error |-> NULL,
                   invoked |-> NONE, last |-> "mount" ]
    /\ alert = NONE
    /\ ScanIdle
    /\ sim = NONE /\ fp = NONE /\ loop = NONE /\ steps = <<>> /\ obs = NONE
    /\ cpc = "done" /\ result = NONE /\ pair = NONE
    /\ feedSide = "BUY"
    /\ TrigIdle
    /\ PageIdle
    /\ NetIdle

CalcNext == CalcInput \/ CalcProps \/ CalcBookLoaded \/ CalcBookFailed \/ CalcCalculate

SpecCalc == CalcInit /\ [][CalcNext]_vars

----------------------------------------------------------------------------
(* Claims about ImpactCalculator, under SpecCalc *)

\* The step is a handleCalculate whose target parses to a number that is at
\* or above the current price, or that is made without an order book.
RejectedRequest ==
    /\ calc'.last = "calculate"
    /\ ParseFloat(calc.targetPrice) # <<>>
    /\ \/ ParseFloat(calc.targetPrice)[1] >= calc.currentPrice
       \/ calc.orderBook = <<>>

\* C21: ImpactCalculator never calls simulateLongCascade with a target at or
\* above the current price or without an order book, and a request with
\* such a target, or made before the order book is loaded, sets an error
\* message and leaves the displayed result unchanged.  (A request whose
\* target text is empty or no number returns without any effect.)
C21_CallerEnforcesPrecondition ==
    [][ /\ calc'.invoked # calc.invoked =>
              /\ calc'.invoked[1].targetPrice < calc'.invoked[1].currentPrice
              /\ calc.orderBook # <<>>
              /\ calc'.invoked[1].currentPrice = calc.currentPrice
        /\ RejectedRequest =>
              /\ calc'.error \in {ERR_WAITING, ERR_TARGET}
              /\ calc'.result = calc.result
              /\ calc'.invoked = calc.invoked ]_vars

\* C21 witness: a result is displayed, and the request handled last, for a
\* target equal to the current price, was rejected with the error message.
C21_Witness ==
    /\ calc # <<>>
    /\ calc.last = "calculate"
    /\ calc.targetPrice = Str(calc.currentPrice)
    /\ calc.error = ERR_TARGET
    /\ calc.result # <<>>
    /\ calc.invoked[1].targetPrice < calc.currentPrice

\* A request made before the order book was loaded.
C21_WitnessNoBook ==
    /\ calc # <<>>
    /\ calc.last = "calculate"
    /\ calc.orderBook = <<>>
    /\ calc.error = ERR_WAITING
    /\ calc.result = <<>>

----------------------------------------------------------------------------
(* TwapTable: the TWAP monitor page and its alerts.  alert holds the refs   *)
(* previousTwapIds and isFirstLoad, and observers of the last fetchTwaps:   *)
(* outcome ("mount" before the first one), the response data, the refs as   *)
(* they were before it (prevIds, wasFirst) and raised, the orders it        *)
(* alerted (toast and voice), in order.                                     *)

MaxAlertIds == 2      \* order ids the feed can serve

ALERT_USD == 500000

\* twap.token === "HYPE" && twap.sizeUsd >= 500000
ShouldAlert(twap) == twap.token = "HYPE" /\ twap.sizeUsd >= ALERT_USD

\* !previousTwapIds.current.has(t.id)
IsNewTwapAlways(previousTwapIds, t) == TRUE
IsNewTwap(previousTwapIds, t) == t.id \notin previousTwapIds

\* data.twaps.filter(new).forEach(alert when ShouldAlert): the alerted orders.
RECURSIVE Alerts(_, _)
Alerts(dataTwaps, previousTwapIds) ==
    IF dataTwaps = <<>> THEN <<>>
    ELSE (IF IsNewTwap(previousTwapIds, Head(dataTwaps)) /\ ShouldAlert(Head(dataTwaps))
          THEN <<Head(dataTwaps)>> ELSE <<>>)
         \o Alerts(Tail(dataTwaps), previousTwapIds)

\* fetchTwaps with a response that is ok.
FetchTwapsOk(a, dataTwaps) ==
    [ previousTwapIds |-> { dataTwaps[k].id : k \in DOMAIN dataTwaps },
      isFirstLoad |-> FALSE,
      outcome |-> "ok", data |-> dataTwaps,
      prevIds |-> a.previousTwapIds, wasFirst |-> a.isFirstLoad,
      raised |-> IF ~a.isFirstLoad THEN Alerts(dataTwaps, a.previousTwapIds) ELSE <<>> ]

\* fetchTwaps when the fetch throws or !response.ok: the catch block.
FetchTwapsFailed(a) ==
    [ a EXCEPT !.outcome = "failed", !.data = <<>>,
               !.prevIds = a.previousTwapIds, !.wasFirst = a.isFirstLoad,
               !.raised = <<>> ]

\* The orders a response can hold for one id: HYPE orders just under, at and
\* just over the alert threshold, and an order of another token over it.
AlertOrders(id) ==
    { [id |-> id, token |-> "HYPE", sizeUsd |-> z] :
        z \in {ALERT_USD - 1, ALERT_USD, ALERT_USD + 1} }
    \cup { [id |-> id, token |-> "PURR", sizeUsd |-> ALERT_USD + 1] }

\* The responses of /api/twaps: each id (the order's hash) at most once.
RECURSIVE AlertResponses(_)
AlertResponses(n) ==
    IF n = 0 THEN {<<>>}
    ELSE LET rest == AlertResponses(n - 1)
         IN  rest \cup { <<t>> \o r : t \in AlertOrders(n), r \in rest }

AlertPollOk ==
    /\ \E dataTwaps \in AlertResponses(MaxAlertIds) : alert' = FetchTwapsOk(alert, dataTwaps)
    /\ UNCHANGED <<sim, fp, loop, steps, obs, cpc, result, pair, calc, scan, trigVars, pageVars, netVars>>

AlertPollFailed ==
    /\ alert' = FetchTwapsFailed(alert)
    /\ UNCHANGED <<sim, fp, loop, steps, obs, cpc, result, pair, calc, scan, trigVars, pageVars, netVars>>

\* The page as mounted: useRef(new Set()), useRef(true).
AlertInit ==
    /\ alert = [ previousTwapIds |-> {}, isFirstLoad |-> TRUE,
                 outcome |-> "mount", data |-> <<>>,
                 prevIds |-> {}, wasFirst |-> TRUE, raised |-> <<>> ]
    /\ calc = NONE
    /\ ScanIdle
    /\ sim = NONE /\ fp = NONE /\ loop = NONE /\ steps = <<>> /\ obs = NONE
    /\ cpc = "done" /\ result = NONE /\ pair = NONE
    /\ feedSide = "BUY"
    /\ TrigIdle
    /\ PageIdle
    /\ NetIdle

AlertNext == AlertPollOk \/ AlertPollFailed

SpecAlert == AlertInit /\ [][AlertNext]_vars

----------------------------------------------------------------------------
(* Claims about the TWAP alerts, under SpecAlert *)

RaisedFor(id) == { k \in DOMAIN alert.raised : alert.raised[k].id = id }
DataIds == { alert.data[k].id : k \in DOMAIN alert.data }

\* C22 (as claimed): after the first load, a newly seen HYPE order raises
\* an alert exactly when its USD value is greater than 500,000; an order
\* worth 500,000 or less raises none.
C22_AlertAboveThreshold ==
    (alert.outcome = "ok" /\ ~alert.wasFirst) =>
        \A k \in DOMAIN alert.data :
            LET t == alert.data[k]
            IN  (t.token = "HYPE" /\ t.id \notin alert.prevIds) =>
                    (RaisedFor(t.id) # {} <=> t.sizeUsd > 500000)

\* What the code does: the alert is raised from 500,000 on.
C22_AlertFromThreshold ==
    (alert.outcome = "ok" /\ ~alert.wasFirst) =>
        \A k \in DOMAIN alert.data :
            LET t == alert.data[k]
            IN  (t.token = "HYPE" /\ t.id \notin alert.prevIds) =>
                    (RaisedFor(t.id) # {} <=> t.sizeUsd >= 500000)

\* A newly seen HYPE order worth exactly 500,000 has raised an alert.
C22_WitnessAtThreshold ==
    /\ alert.outcome = "ok" /\ ~alert.wasFirst
    /\ \E k \in DOMAIN alert.raised : alert.raised[k].sizeUsd = 500000

\* C30: alerts fire only for newly seen orders.  The first successful load
\* raises none; a later successful poll alerts an order only if its id was
\* absent from the id set of the previous successful poll, and at most
\* once, so that an order present in consecutive successful polls is not
\* alerted again; a successful poll makes its ids the seen-id set, and a
\* failed poll raises nothing and leaves the seen-id set (and the
\* first-load flag) unchanged.
C30_AlertsOnlyForNewOrders ==
    /\ (alert.outcome = "ok" /\ alert.wasFirst) => alert.raised = <<>>
    /\ alert.outcome = "ok" =>
          /\ \A k \in DOMAIN alert.raised :
                /\ alert.raised[k].id \in DataIds \ alert.prevIds
                /\ Cardinality(RaisedFor(alert.raised[k].id)) = 1
          /\ alert.previousTwapIds = DataIds
          /\ ~alert.isFirstLoad
    /\ alert.outcome = "failed" =>
          /\ alert.raised = <<>>
          /\ alert.previousTwapIds = alert.prevIds
          /\ alert.isFirstLoad = alert.wasFirst

\* C30 witness: a poll that alerted a new order and stayed silent about an
\* order over the threshold that the previous successful poll had served.
C30_Witness ==
    /\ alert # <<>>
    /\ alert.outcome = "ok" /\ ~alert.wasFirst
    /\ alert.raised # <<>>
    /\ \E k \in DOMAIN alert.data :
          /\ ShouldAlert(alert.data[k])
          /\ alert.data[k].id \in alert.prevIds
          /\ RaisedFor(alert.data[k].id) = {}

\* A first load that held an order over the threshold and raised nothing.
C30_WitnessFirstLoad ==
    /\ alert # <<>>
    /\ alert.outcome = "ok" /\ alert.wasFirst
    /\ \E k \in DOMAIN alert.data : ShouldAlert(alert.data[k])
    /\ alert.raised = <<>>

\* A failed poll after a successful one: the seen-id set is kept.
C30_WitnessFailed ==
    /\ alert # <<>>
    /\ alert.outcome = "failed" /\ ~alert.isFirstLoad
    /\ alert.previousTwapIds # {}

----------------------------------------------------------------------------
(* The running system: one simulator page polling the feed and the store.  *)
(* Every fetch is asynchronous: a POST or PATCH the page has sent is        *)
(* handled by the store at any later time, in any order, and a GET response *)
(* is delivered at any time after the store produced it.                    *)

MaxInFlight == 2      \* requests of one kind in flight
MaxFeed == 1          \* orders in the feed
MaxClock == 2         \* clock ticks

\* Prices the feed reports: 0 when the price lookup failed, else one of two
\* prices more than 20% / leverage apart.
SysPrices == {0, (PriceNow * 96) \div 100, (PriceNow * 104) \div 100}

\* filter(_, index) => index !== k
RemoveAt(s, k) == SubSeq(s, 1, k - 1) \o SubSeq(s, k + 1, Len(s))

\* The POST bodies of the openPosition calls that pass the guard price <= 0.
RECURSIVE OpenBodies(_)
OpenBodies(calls) ==
    IF calls = <<>> THEN <<>>
    ELSE (IF Head(calls).price <= 0 THEN <<>> ELSE << OpenBody(Head(calls)) >>)
         \o OpenBodies(Tail(calls))

RECURSIVE CloseBodies(_)
CloseBodies(calls) ==
    IF calls = <<>> THEN <<>>
    ELSE << CloseBody(Head(calls)) >> \o CloseBodies(Tail(calls))

\* A render after setPositions(list) and/or setHypePrice(p): the PnL effect
\* runs when one of its dependencies changed, and sends its PATCH requests.
\* setPositions always installs a new array; setHypePrice(p) with an
\* unchanged p does not re-render.
Render(list, p, changed) ==
    /\ positions' = list
    /\ hypePrice' = p
    /\ IF changed
       THEN /\ closes' = PnlEffect(list, p, now)
            /\ evalTime' = now
            /\ patches' = patches \o CloseBodies(closes')
            /\ Len(patches') <= MaxInFlight
       ELSE UNCHANGED <<closes, evalTime, patches>>

\* fetchData from its response on: setHypePrice when the price is truthy,
\* then checkTriggers with the positions of the closure that made the call.
FetchDataDone(p, closurePositions) ==
    /\ posts' = posts \o OpenBodies(CheckTriggers(twaps, p, closurePositions))
    /\ Len(posts') <= MaxInFlight
    /\ Render(positions, IF p # 0 THEN p ELSE hypePrice, p # 0 /\ p # hypePrice)

\* The upstream feed gains an order, placed now.
SysFeedAdd ==
    /\ Len(twaps) < MaxFeed
    /\ \E kind \in {"plain", "big"} :
          twaps' = << MkOrder(kind, Len(twaps) + 1, now - GapShort, feedSide) >> \o twaps
    /\ UNCHANGED <<feedSide, store, seqVars, simVars, pageVars, netVars>>

\* fetchData called at mount or by setInterval: its closure is the one of
\* the first render, where positions is [].
SysPollData ==
    /\ \E p \in SysPrices : FetchDataDone(p, <<>>)
    /\ UNCHANGED <<feedVars, store, seqVars, simVars, now, getResps, refresh, postResp>>

\* handleRefresh: fetchData of the current render is called.
SysRefresh ==
    /\ refresh = NONE
    /\ refresh' = Some(positions)
    /\ UNCHANGED <<feedVars, store, seqVars, simVars, pageVars, posts, patches, getResps, postResp>>

SysRefreshData ==
    /\ refresh # NONE
    /\ \E p \in SysPrices : FetchDataDone(p, refresh[1])
    /\ refresh' = NONE
    /\ UNCHANGED <<feedVars, store, seqVars, simVars, now, getResps, postResp>>

\* GET handled by the store (fetchPositions is called at mount, every 10 s,
\* by handleRefresh and after every successful POST or PATCH).
SysGet ==
    /\ Len(getResps) < MaxInFlight
    /\ getResps' = Append(getResps, StoreGet(store))
    /\ UNCHANGED <<feedVars, store, seqVars, simVars, pageVars, posts, patches, refresh, postResp>>

\* fetchPositions from its response on: setPositions(data).
SysGetDone ==
    /\ \E k \in DOMAIN getResps :
          /\ Render(getResps[k], hypePrice, TRUE)
          /\ getResps' = RemoveAt(getResps, k)
    /\ UNCHANGED <<feedVars, store, seqVars, simVars, now, posts, refresh, postResp>>

SysPost ==
    /\ \E k \in DOMAIN posts :
          /\ store' = StorePost(store, posts[k])
          /\ postResp' = PostResponse(store, posts[k])
          /\ posts' = RemoveAt(posts, k)
    /\ UNCHANGED <<feedVars, seqVars, simVars, pageVars, patches, getResps, refresh>>

SysPatch ==
    /\ \E k \in DOMAIN patches :
          /\ store' = StorePatch(store, patches[k])
          /\ postResp' = PatchResponse(store, patches[k])
          /\ patches' = RemoveAt(patches, k)
    /\ UNCHANGED <<feedVars, seqVars, simVars, pageVars, posts, getResps, refresh>>

SysTick ==
    /\ now < MaxClock * TICK_MS
    /\ now' = now + TICK_MS
    /\ UNCHANGED <<feedVars, store, seqVars, simVars, positions, hypePrice, closes, evalTime, netVars>>

Init ==
    /\ feedSide = "BUY"
    /\ TrigIdle
    /\ SimIdle
    /\ PageIdle
    /\ NetIdle

Next ==
    \/ SysFeedAdd
    \/ SysPollData
    \/ SysRefresh
    \/ SysRefreshData
    \/ SysGet
    \/ SysGetDone
    \/ SysPost
    \/ SysPatch
    \/ SysTick

Spec == Init /\ [][Next]_vars

----------------------------------------------------------------------------
(* Claims about the running system, under Spec *)

Closed(row) == row.status \in {"CLOSED_TP", "CLOSED_SL", "CLOSED_TIME"}

\* C1 (as claimed): a stored position is updated at most once.  After its
\* status has become CLOSED_TP, CLOSED_SL or CLOSED_TIME, no step of the
\* system changes its status, close_price or pnl_percent.
C1_ClosedIsFinal ==
    [][ \A k \in DOMAIN store :
          Closed(store[k]) =>
            /\ store'[k].status = store[k].status
            /\ store'[k].close_price = store[k].close_price
            /\ store'[k].pnl_percent = store[k].pnl_percent ]_vars

\* C2: the store never holds two positions with the same non-null
\* trigger_id, whatever the interleaving of polls, evaluations and POSTs.
C2_UniqueTriggerIds ==
    \A i, j \in DOMAIN store :
        (i # j /\ store[i].trigger_id # <<>>) => store[i].trigger_id # store[j].trigger_id

\* The store holds a position, and the POST handled last proposed the
\* trigger id of a stored position again and was ignored.
C2_Witness ==
    /\ postResp = "ignored"
    /\ \E k \in DOMAIN store : store[k].trigger_id # <<>>

\* The same trigger id is proposed by two POSTs in flight at once, with
\* different entry prices, while the store is still empty.
C2_WitnessConcurrent ==
    /\ store = <<>>
    /\ \E a, b \in DOMAIN posts :
          /\ a # b
          /\ posts[a].trigger_id = posts[b].trigger_id
          /\ posts[a].entry_price # posts[b].entry_price

\* An evaluation working from an outdated position list: the refresh
\* pending was made by a render whose list lacks a position the store
\* holds, and the POST handled last was ignored.
C2_WitnessOutdated ==
    /\ refresh # <<>>
    /\ Len(refresh[1]) < Len(store)
    /\ postResp = "ignored"

\* The POST of posts[k] is the request this step handles.
HandlesPost(k) == posts' = RemoveAt(posts, k)

TriggerIdStored(body) ==
    body.trigger_id # <<>> /\ \E r \in DOMAIN store : store[r].trigger_id = body.trigger_id

\* C19: a create request whose trigger_id already exists in the store is
\* answered without an error status and changes nothing: no row is added
\* and every stored position keeps its status, entry price, direction and
\* end time.
C19_DuplicateCreateIsNoOp ==
    [][ \A k \in DOMAIN posts :
          (HandlesPost(k) /\ TriggerIdStored(posts[k])) =>
              /\ store' = store
              /\ postResp' = "ignored" ]_vars

\* C19 witness: the last write request handled was a create that was
\* ignored, and the position holding its trigger id is closed and stays so.
C19_Witness ==
    /\ postResp = "ignored"
    /\ \E r \in DOMAIN store :
          /\ store[r].trigger_id # <<>>
          /\ Closed(store[r])
          /\ store[r].close_price # <<>>

----------------------------------------------------------------------------
(* The running system with failures: a poll of the feed can fail or come   *)
(* back without a price, and a create request can fail (the fetch throws,   *)
(* or the store answers 500).  The page keeps no record of either: the      *)
(* catch blocks only log.  tpc, price and cmds record the last poll made by *)
(* the timer and what became of it.                                          *)

\* fetchData by setInterval, the feed answers with a price: checkTriggers
\* runs with the positions of the first render, [].
LivePoll ==
    /\ \E p \in SysPrices \ {0} :
          /\ FetchDataDone(p, <<>>)
          /\ price' = p
          /\ cmds' = CheckTriggers(twaps, p, <<>>)
    /\ tpc' = "emitted"
    /\ UNCHANGED <<feedVars, store, rounds, simVars, now, getResps, refresh, postResp>>

\* The feed answers without a price: data.hypePrice || 0 is 0 and
\* checkTriggers returns at once.
LivePollZero ==
    /\ FetchDataDone(0, <<>>)
    /\ price' = 0
    /\ cmds' = CheckTriggers(twaps, 0, <<>>)
    /\ tpc' = "emitted"
    /\ UNCHANGED <<feedVars, store, rounds, simVars, now, getResps, refresh, postResp>>

\* fetch("/api/twaps") throws or !res.ok: the catch block, no checkTriggers.
LivePollFail ==
    /\ tpc' = "skipped"
    /\ cmds' = <<>>
    /\ UNCHANGED <<feedVars, store, price, rounds, simVars, pageVars, netVars>>

\* The create request for triggerId reaches the store and is answered.
LivePostOk(triggerId) ==
    /\ \E k \in DOMAIN posts :
          /\ posts[k].trigger_id = triggerId
          /\ store' = StorePost(store, posts[k])
          /\ postResp' = PostResponse(store, posts[k])
          /\ posts' = RemoveAt(posts, k)
    /\ UNCHANGED <<feedVars, seqVars, simVars, pageVars, patches, getResps, refresh>>

\* A create request fails: the fetch throws or res.ok is false, and
\* openPosition does nothing more.
LivePostFail ==
    /\ \E k \in DOMAIN posts : posts' = RemoveAt(posts, k)
    /\ postResp' = "error"
    /\ tpc' = "failed"
    /\ UNCHANGED <<feedVars, store, price, cmds, rounds, simVars, pageVars,
                   patches, getResps, refresh>>

\* fetchPositions (every 10 s and after a successful POST or PATCH), from
\* the GET to setPositions(data).
LiveFetchPositions ==
    /\ Render(StoreGet(store), hypePrice, TRUE)
    /\ UNCHANGED <<feedVars, store, seqVars, simVars, now, posts, getResps, refresh, postResp>>

LiveTriggerIds == { <<"large", id>> : id \in 1..MaxFeed }

LiveNext ==
    \/ SysFeedAdd
    \/ LivePoll
    \/ LivePollZero
    \/ LivePollFail
    \/ \E triggerId \in LiveTriggerIds : LivePostOk(triggerId)
    \/ LivePostFail
    \/ LiveFetchPositions
    \/ SysPatch

\* setInterval(fetchData, 30000) keeps firing whatever is in flight, and the
\* feed keeps answering with a price: a poll with a price is made again and
\* again.  Create requests succeed eventually: a trigger id whose request
\* is in flight again and again has a request answered by the store.
LiveFairness ==
    /\ SF_vars(LivePoll)
    /\ \A triggerId \in LiveTriggerIds : SF_vars(LivePostOk(triggerId))

SpecLive == Init /\ [][LiveNext]_vars /\ LiveFairness

----------------------------------------------------------------------------
(* Claims about the running system with failures, under SpecLive *)

LargeInFeed(id) == \E j \in DOMAIN twaps : twaps[j].id = id /\ twaps[j].sizeUsd > 1000000
TriggerStored(triggerId) == \E r \in DOMAIN store : store[r].trigger_id = triggerId

\* The last thing that happened to the triggers was a poll that failed, a
\* poll without a price, or a create request that failed.
Missed == tpc \in {"skipped", "failed"} \/ (tpc = "emitted" /\ price = 0)

\* The timer's last poll evaluated the triggers and proposed triggerId.
Proposed(triggerId) == tpc = "emitted" /\ CallsWith(cmds, triggerId) # {}

\* C20: a missed poll cannot lose a trigger.  While an order with sizeUsd >
\* 1,000,000 is in the feed, after a skipped poll or a failed create request
\* a later poll proposes large_<id> again, and with polls made and create
\* requests eventually successful a position with trigger id large_<id>
\* is eventually in the store.
C20_TriggerNotLost ==
    \A id \in 1..MaxFeed :
        /\ (LargeInFeed(id) /\ Missed) ~> Proposed(<<"large", id>>)
        /\ LargeInFeed(id) ~> TriggerStored(<<"large", id>>)

\* C20 witness: the only create request made for a large order has failed,
\* so that nothing is stored or in flight for it.
C20_Witness ==
    /\ tpc = "failed" /\ postResp = "error"
    /\ posts = <<>> /\ store = <<>>
    /\ \E j \in DOMAIN twaps : twaps[j].sizeUsd > 1000000

\* A poll was skipped while the order was in the feed and nothing had been
\* stored or was in flight for it.
C20_WitnessSkipped ==
    /\ tpc = "skipped"
    /\ posts = <<>> /\ store = <<>>
    /\ \E j \in DOMAIN twaps : twaps[j].sizeUsd > 1000000

\* The position of a large order is in the store although the create
\* request handled last failed.
C20_WitnessStored ==
    /\ tpc = "failed" /\ postResp = "error"
    /\ \E j \in DOMAIN twaps :
          /\ twaps[j].sizeUsd > 1000000
          /\ TriggerStored(<<"large", twaps[j].id>>)

\* The client has fetched a position carrying the trigger id of body.
TriggerIdFetched(body) ==
    body.trigger_id # <<>> /\ \E r \in DOMAIN positions : positions[r].trigger_id = body.trigger_id

\* The POST requests a step sends.
Proposed26 == { k \in DOMAIN posts' : k > Len(posts) }

\* C26 (as claimed): every poll gives checkTriggers the positions most
\* recently fetched from the store, so no poll proposes to the store a
\* trigger whose position the client has already fetched.
C26_FetchedTriggerNotProposedAgain ==
    [][ \A k \in Proposed26 : ~TriggerIdFetched(posts'[k]) ]_vars

\* The fetched list holds the position of a trigger and a POST in flight
\* proposes that trigger again.
C26_WitnessProposedAgain ==
    /\ \E k \in DOMAIN posts : TriggerIdFetched(posts[k])
    /\ \E r \in DOMAIN store : store[r].trigger_id # <<>>

----------------------------------------------------------------------------
(* The life of a position with failures: positions appear in the store,    *)
(* the page fetches them every 10 s and the price every 30 s, the PnL      *)
(* effect runs at every render and sends its PATCH requests, and any fetch *)
(* may fail.                                                               *)

MaxClosePositions == 1

\* Prices the feed reports: one leaving the pnlPercent of a position
\* entered at PriceNow inside the band, one taking it to the band's edge.
ClosePrices == {PriceNow, (PriceNow * 96) \div 100}

ClosePositionIds == 1..MaxClosePositions

\* A position is created in the store.
CloseOpen ==
    /\ Len(store) < MaxClosePositions
    /\ \E direction \in Side, endTime \in EndTimes :
          store' = OpenPositionDone(store,
                      OpenCall(direction, PriceNow, <<"large", Len(store) + 1>>, endTime))
    /\ UNCHANGED <<feedVars, seqVars, simVars, pageVars, netVars>>

\* fetchPositions, from the GET to setPositions(data) and the effect.
CloseFetchPositions ==
    /\ Render(StoreGet(store), hypePrice, TRUE)
    /\ UNCHANGED <<feedVars, store, seqVars, simVars, now, posts, getResps, refresh, postResp>>

\* fetchData answered with a price: setHypePrice(p) and the effect.
ClosePrice ==
    /\ \E p \in ClosePrices : FetchDataDone(p, <<>>)
    /\ UNCHANGED <<feedVars, store, seqVars, simVars, now, getResps, refresh, postResp>>

\* A fetch of the page fails (fetchPositions or fetchData throws or
\* !res.ok): no state is set.
CloseFetchFail ==
    /\ tpc' = IF tpc = "skipped" THEN "idle" ELSE "skipped"
    /\ UNCHANGED <<feedVars, store, price, cmds, rounds, simVars, pageVars, netVars>>

\* The PATCH closing position id reaches the store and is answered.
ClosePatchOk(id) ==
    /\ \E k \in DOMAIN patches :
          /\ patches[k].id = id
          /\ store' = StorePatch(store, patches[k])
          /\ postResp' = PatchResponse(store, patches[k])
          /\ patches' = RemoveAt(patches, k)
    /\ UNCHANGED <<feedVars, seqVars, simVars, pageVars, posts, getResps, refresh>>

\* A PATCH fails: the fetch throws or res.ok is false, and closePosition
\* does nothing more.
ClosePatchFail ==
    /\ \E k \in DOMAIN patches : patches' = RemoveAt(patches, k)
    /\ postResp' = "error"
    /\ UNCHANGED <<feedVars, store, seqVars, simVars, pageVars, posts, getResps, refresh>>

CloseTick ==
    /\ now < MaxClock * TICK_MS
    /\ now' = now + TICK_MS
    /\ UNCHANGED <<feedVars, store, seqVars, simVars, positions, hypePrice, closes, evalTime, netVars>>

CloseNext ==
    \/ CloseOpen
    \/ CloseFetchPositions
    \/ ClosePrice
    \/ CloseFetchFail
    \/ \E id \in ClosePositionIds : ClosePatchOk(id)
    \/ ClosePatchFail
    \/ CloseTick

\* setInterval(fetchPositions, 10000) and setInterval(fetchData, 30000)
\* keep firing: the store answers the GET again and again, the feed
\* eventually answers with a price (which may then stay the same for
\* ever), and a position whose PATCH is in flight again and again has a
\* PATCH answered by the store.
CloseFairness ==
    /\ SF_vars(CloseFetchPositions)
    /\ SF_vars(hypePrice = 0 /\ ClosePrice)
    /\ \A id \in ClosePositionIds : SF_vars(ClosePatchOk(id))

SpecClose == Init /\ [][CloseNext]_vars /\ CloseFairness

----------------------------------------------------------------------------
(* Claims about the life of a position, under SpecClose *)

StoredOpen(id) == \E r \in DOMAIN store : store[r].id = id /\ store[r].status = OpenStatus
StoredClosed(id) == \E r \in DOMAIN store : store[r].id = id /\ Closed(store[r])

\* The stored position id is open and its end_time has passed.
OpenExpired(id) ==
    \E r \in DOMAIN store :
        /\ store[r].id = id /\ store[r].status = OpenStatus
        /\ store[r].end_time # <<>> /\ now > GetTime(store[r].end_time)

\* The stored position id is open and its pnlPercent at the page's price is
\* at or beyond +20 or -20.
OpenBeyond(id) ==
    /\ hypePrice # 0
    /\ \E r \in DOMAIN store :
          /\ store[r].id = id /\ store[r].status = OpenStatus
          /\ \/ TakeProfitHit(PnlPercent(store[r], hypePrice))
             \/ StopLossHit(PnlPercent(store[r], hypePrice))

\* C29: with the page's polls made again and again and requests eventually
\* successful with a non-zero price, every OPEN position whose end_time has
\* passed eventually has a CLOSED_* status in the store, and every OPEN
\* position whose pnlPercent is at or beyond +20 or -20 eventually has one
\* too, unless the price takes the pnlPercent back inside the band.
C29_OpenPositionsEventuallyClosed ==
    \A id \in ClosePositionIds :
        /\ OpenExpired(id) ~> StoredClosed(id)
        /\ OpenBeyond(id) ~> (StoredClosed(id) \/ ~OpenBeyond(id))

\* C29 witness: a position was open past its end_time while a PATCH of it
\* had failed, and is closed by time in the store now.
C29_Witness ==
    /\ \E r \in DOMAIN store :
          /\ store[r].status = "CLOSED_TIME"
          /\ store[r].close_price = <<PriceNow>>
    /\ postResp = "updated"

\* A position closed by its PnL, with no end_time.
C29_WitnessPnl ==
    \E r \in DOMAIN store :
        /\ store[r].status \in {"CLOSED_TP", "CLOSED_SL"}
        /\ store[r].end_time = <<>>

\* A PATCH has just failed and the position it was to close is still open
\* past its end_time.
C29_WitnessFailed ==
    /\ postResp = "error"
    /\ \E id \in ClosePositionIds : OpenExpired(id)

====
